---- MODULE Spec2Model ----
(***************************************************************************)
(* Verification model of the gatrr deployment configuration compiler       *)
(* (inference, validation, routing generation) and of the portal's logout  *)
(* cascade.                                                                *)
(*                                                                         *)
(* Strings are sequences of tokens: a value that comes from the input is   *)
(* spelled character by character (<<"d","e","m","o">>), a literal of a    *)
(* message template is one token.  Concatenation is \o.  An optional field *)
(* is a sequence of length 0 (absent) or 1 (present).                      *)
(***************************************************************************)
EXTENDS Integers, Sequences, FiniteSets, TLC

VARIABLES
    pc,          \* position of the compile pipeline: "input", "resolved", "validated"
    stackName,   \* Pulumi stack name of the run
    raw,         \* DeploymentConfigFile: [roles, users, services]
    resolved,    \* ResolvedDeploymentConfig, <<>> before resolution
    result,      \* ValidationResult, <<>> before validation
    rpc,         \* position of the routing generator: "input", "done"
    dconfig,     \* DeploymentConfig fields read by the routing generator
    routes,      \* RouteRequest[] handed to generateTraefikConfig
    traefik,     \* outcome of generateTraefikConfig: a config or a thrown error
    lstate,      \* logout cascade state
    descriptor,  \* descriptor service entries read by the cascade
    reachable,   \* set of service names that answer an HTTP probe
    worklist,    \* oauth2-proxy services still to process, in descriptor order
    current,     \* the service being probed / visited, <<>> if none
    localCleared,\* portal cookies cleared
    sessions,    \* services that still hold an oauth2-proxy session cookie
    trace,       \* observable events of the cascade, in order
    gpc,         \* position of a generator run: "input", "done"
    inputs,      \* the arguments of the generator that runs
    output       \* what the generator returned or threw

compileVars == <<pc, stackName, raw, resolved, result>>
routeVars   == <<rpc, dconfig, routes, traefik>>
cascadeVars == <<lstate, descriptor, reachable, worklist, current, localCleared,
                 sessions, trace>>
genVars     == <<gpc, inputs, output>>
vars        == <<compileVars, routeVars, cascadeVars, genVars>>

-----------------------------------------------------------------------------
(* Characters and strings                                                  *)

Lower == <<"a","b","c","d","e","f","g","h","i","j","k","l","m",
           "n","o","p","q","r","s","t","u","v","w","x","y","z">>
Upper == <<"A","B","C","D","E","F","G","H","I","J","K","L","M",
           "N","O","P","Q","R","S","T","U","V","W","X","Y","Z">>
Digit == <<"0","1","2","3","4","5","6","7","8","9">>

Range(s) == {s[i] : i \in DOMAIN s}

LowerSet == Range(Lower)
UpperSet == Range(Upper)
DigitSet == Range(Digit)
Chars == LowerSet \cup UpperSet \cup DigitSet \cup {"-", ".", "@", " "}

IsLower(c) == c \in LowerSet
IsUpper(c) == c \in UpperSet
IsDigit(c) == c \in DigitSet

IndexIn == [c \in LowerSet \cup UpperSet \cup DigitSet |->
               CHOOSE i \in 1..26 :
                   \/ i \in DOMAIN Lower /\ Lower[i] = c
                   \/ i \in DOMAIN Upper /\ Upper[i] = c
                   \/ i \in DOMAIN Digit /\ Digit[i] = c]

\* UTF-16 code unit of the characters the model uses
CodeUnit == [c \in Chars |->
    IF IsLower(c) THEN 96 + IndexIn[c]
    ELSE IF IsUpper(c) THEN 64 + IndexIn[c]
    ELSE IF IsDigit(c) THEN 47 + IndexIn[c]
    ELSE IF c = "-" THEN 45
    ELSE IF c = "." THEN 46
    ELSE IF c = "@" THEN 64
    ELSE 32]

ToUpperChar(c) == IF IsLower(c) THEN Upper[IndexIn[c]] ELSE c
ToLowerChar(c) == IF IsUpper(c) THEN Lower[IndexIn[c]] ELSE c

\* Lexicographic comparison of two sequences of numbers: -1, 0 or 1;
\* a proper prefix sorts first.
RECURSIVE LexCompare(_, _)
LexCompare(a, b) ==
    IF a = <<>> /\ b = <<>> THEN 0
    ELSE IF a = <<>> THEN -1
    ELSE IF b = <<>> THEN 1
    ELSE IF Head(a) < Head(b) THEN -1
    ELSE IF Head(a) > Head(b) THEN 1
    ELSE LexCompare(Tail(a), Tail(b))

\* Comparison used by Array.prototype.sort() without a comparator
CodeUnitCompare(a, b) ==
    LexCompare([i \in DOMAIN a |-> CodeUnit[a[i]]], [i \in DOMAIN b |-> CodeUnit[b[i]]])

\* Primary collation weight in en-US: punctuation < digits < letters,
\* letters case-insensitively
PrimaryWeight == [c \in Chars |->
    IF IsLower(c) \/ IsUpper(c) THEN 100 + IndexIn[c]
    ELSE IF IsDigit(c) THEN 50 + IndexIn[c]
    ELSE CodeUnit[c] - 30]
\* Tertiary weight: lowercase before uppercase
CaseWeight == [c \in Chars |-> IF IsUpper(c) THEN 1 ELSE 0]

\* a.localeCompare(b, "en-US"): primary weights first, case breaks ties
localeCompare(a, b) ==
    LET prim == LexCompare([i \in DOMAIN a |-> PrimaryWeight[a[i]]],
                           [i \in DOMAIN b |-> PrimaryWeight[b[i]]])
    IN IF prim # 0 THEN prim
       ELSE LexCompare([i \in DOMAIN a |-> CaseWeight[a[i]]],
                       [i \in DOMAIN b |-> CaseWeight[b[i]]])

\* Array.prototype.sort(cmp) as V8 runs it on arrays shorter than 64: the
\* run the array starts with is taken as it is (reversed if it is strictly
\* descending), then each later element is put in by binary insertion.
\* cmp is the comparator as a function on pairs of elements.  With a
\* consistent comparator this is any stable sort.
InsertSorted(x, s, cmp) ==
    LET RECURSIVE Search(_, _)
        \* left and right as offsets from 0, as in the engine
        Search(left, right) ==
            IF left >= right THEN left
            ELSE LET mid == left + ((right - left) \div 2)
                 IN IF cmp[<<x, s[mid + 1]>>] < 0 THEN Search(left, mid)
                    ELSE Search(mid + 1, right)
        at == Search(0, Len(s))
    IN SubSeq(s, 1, at) \o <<x>> \o SubSeq(s, at + 1, Len(s))

SortWith(s, cmp) ==
    IF Len(s) < 2 THEN s
    ELSE LET isDescending == cmp[<<s[2], s[1]>>] < 0
             RECURSIVE RunEnd(_)
             RunEnd(k) ==
                 IF k = Len(s) THEN k
                 ELSE LET order == cmp[<<s[k + 1], s[k]>>]
                      IN IF (isDescending /\ order >= 0) \/ (~isDescending /\ order < 0)
                         THEN k
                         ELSE RunEnd(k + 1)
             n == RunEnd(2)
             run == IF isDescending THEN [i \in 1..n |-> s[n + 1 - i]] ELSE SubSeq(s, 1, n)
             RECURSIVE InsertFrom(_, _)
             InsertFrom(sorted, k) ==
                 IF k > Len(s) THEN sorted
                 ELSE InsertFrom(InsertSorted(s[k], sorted, cmp), k + 1)
         IN InsertFrom(run, n + 1)

Pairs(s) == Range(s) \X Range(s)

Includes(s, x) == \E i \in DOMAIN s : s[i] = x

\* s.join(sep)
RECURSIVE Join(_, _)
Join(s, sep) ==
    IF s = <<>> THEN <<>>
    ELSE IF Len(s) = 1 THEN s[1]
    ELSE s[1] \o sep \o Join(Tail(s), sep)

\* text.includes(part): part is a contiguous run of text
Contains(text, part) ==
    \E i \in 1..(Len(text) - Len(part) + 1) : SubSeq(text, i, i + Len(part) - 1) = part

\* Deduplicate keeping first occurrences (insertion order of a Set / Map keys)
RECURSIVE Distinct(_)
Distinct(s) ==
    IF s = <<>> THEN <<>>
    ELSE LET d == Distinct(SubSeq(s, 1, Len(s) - 1))
         IN IF Includes(d, s[Len(s)]) THEN d ELSE Append(d, s[Len(s)])

RECURSIVE Flatten(_)
Flatten(ss) == IF ss = <<>> THEN <<>> ELSE Head(ss) \o Flatten(Tail(ss))

-----------------------------------------------------------------------------
(* constants.ts, deployment-config/types.ts                                *)

S_portal   == <<"p","o","r","t","a","l">>
S_keycloak == <<"k","e","y","c","l","o","a","k">>
S_demo     == <<"d","e","m","o">>
S_docs     == <<"d","o","c","s">>
S_dozzle   == <<"d","o","z","z","l","e">>
S_logs     == <<"l","o","g","s">>
S_local    == <<"l","o","c","a","l">>
S_prod     == <<"p","r","o","d">>
S_admin    == <<"a","d","m","i","n">>
S_dev      == <<"d","e","v">>

RESERVED_HOSTS == <<S_portal, S_keycloak>>

isReservedHost(host) == Includes(RESERVED_HOSTS, host)

\* SLUG_PATTERN = /^[a-z][a-z0-9-]*[a-z0-9]$|^[a-z]$/
isValidSlug(value) ==
    /\ value # <<>>
    /\ \/ /\ Len(value) >= 2
          /\ IsLower(value[1])
          /\ \A i \in 2..(Len(value) - 1) :
                IsLower(value[i]) \/ IsDigit(value[i]) \/ value[i] = "-"
          /\ IsLower(value[Len(value)]) \/ IsDigit(value[Len(value)])
       \/ Len(value) = 1 /\ IsLower(value[1])

isValidServiceId(id) == isValidSlug(id)
isValidHost(host) == isValidSlug(host)
isValidRole(role) == isValidSlug(role)
isValidUsername(username) == isValidSlug(username)

\* /^[^\s@]+@[^\s@]+\.[^\s@]+$/
isValidEmail(email) ==
    /\ email # <<>>
    /\ \E at \in DOMAIN email :
          /\ email[at] = "@"
          /\ \A i \in DOMAIN email : (email[i] = "@" => i = at) /\ email[i] # " "
          /\ at > 1
          /\ \E dot \in (at + 2)..(Len(email) - 1) : email[dot] = "."

\* Object.keys(SERVICE_CATALOG).sort()
SERVICE_CATALOG == <<S_demo, S_docs, S_dozzle, S_logs>>

-----------------------------------------------------------------------------
(* deployment-config/inference.ts                                          *)

capitalizeWord(word) ==
    IF word = <<>> THEN word
    ELSE <<ToUpperChar(word[1])>> \o [i \in 1..(Len(word) - 1) |-> ToLowerChar(word[i + 1])]

\* s.split("-")
RECURSIVE SplitHyphen(_)
SplitHyphen(s) ==
    IF ~Includes(s, "-") THEN <<s>>
    ELSE LET k == CHOOSE i \in DOMAIN s : s[i] = "-" /\ \A j \in 1..(i - 1) : s[j] # "-"
         IN <<SubSeq(s, 1, k - 1)>> \o SplitHyphen(SubSeq(s, k + 1, Len(s)))

inferPortalName(serviceId) ==
    IF serviceId = <<>> THEN <<>>
    ELSE LET words == SplitHyphen(serviceId)
         IN Join([i \in DOMAIN words |-> capitalizeWord(words[i])], <<" ">>)

inferHost(serviceId) == serviceId

\* requiredRoles is the optional field: <<>> or <<list>>
inferAuthType(requiredRoles) ==
    IF requiredRoles = <<>> \/ Len(requiredRoles[1]) = 0 THEN "none" ELSE "oauth2-proxy"

\* services: the entries of raw.services, <<id, config>>, in insertion order
computeRoles(explicitRoles, users, services) ==
    IF explicitRoles # <<>>
    THEN SortWith(explicitRoles[1],
                  [p \in Pairs(explicitRoles[1]) |-> CodeUnitCompare(p[1], p[2])])
    ELSE LET fromUsers == Flatten([i \in DOMAIN users |-> users[i].roles])
             fromServices == Flatten([i \in DOMAIN services |->
                                 IF services[i][2].requiredRoles # <<>>
                                 THEN services[i][2].requiredRoles[1] ELSE <<>>])
             roleSet == Distinct(fromUsers \o fromServices)
         IN SortWith(roleSet, [p \in Pairs(roleSet) |-> CodeUnitCompare(p[1], p[2])])

resolveServiceConfig(serviceId, config) ==
    [serviceId |-> serviceId,
     portalName |-> IF config.portalName # <<>> THEN config.portalName[1]
                    ELSE inferPortalName(serviceId),
     host |-> IF config.host # <<>> THEN config.host[1] ELSE inferHost(serviceId),
     authType |-> IF config.authType # <<>> THEN config.authType[1]
                  ELSE inferAuthType(config.requiredRoles),
     requiredRoles |-> IF config.requiredRoles # <<>> THEN config.requiredRoles[1] ELSE <<>>]

resolveDeploymentConfig(stack, rawFile) ==
    LET users == rawFile.users
        entries == [i \in DOMAIN rawFile.services |->
                       resolveServiceConfig(rawFile.services[i][1], rawFile.services[i][2])]
        services == SortWith(entries, [p \in Pairs(entries) |->
                                          localeCompare(p[1].serviceId, p[2].serviceId)])
    IN [stackName |-> stack,
        roles |-> computeRoles(rawFile.roles, users, rawFile.services),
        users |-> users,
        services |-> services]

-----------------------------------------------------------------------------
(* deployment-config/validation.ts                                         *)
(* A validation function returns the list of errors it found (<<>> for     *)
(* null); an error is [code, message, path].                               *)

Err(code, message, path) == [code |-> code, message |-> message, path |-> path]

validateServiceExists(serviceId, catalog) ==
    IF Includes(catalog, serviceId) THEN <<>>
    ELSE << Err("UNKNOWN_SERVICE",
                <<"Unknown service \"">> \o serviceId \o <<"\". Available services: ">>
                    \o (IF Len(catalog) > 0 THEN Join(catalog, <<", ">>) ELSE <<"(none)">>),
                <<"services.">> \o serviceId) >>

validateServiceIdFormat(serviceId) ==
    IF isValidServiceId(serviceId) THEN <<>>
    ELSE << Err("INVALID_SERVICE_ID",
                <<"Invalid serviceId \"">> \o serviceId \o <<"\": must start with lowercase letter">>,
                <<"services.">> \o serviceId) >>

validateHostFormat(host, serviceId) ==
    IF isValidHost(host) THEN <<>>
    ELSE << Err("INVALID_HOST",
                <<"Invalid host \"">> \o host \o <<"\" for service \"">> \o serviceId
                    \o <<"\": must start with lowercase letter">>,
                <<"services.">> \o serviceId \o <<".host">>) >>

validateNotReservedHost(host, serviceId) ==
    IF ~isReservedHost(host) THEN <<>>
    ELSE << Err("RESERVED_HOST",
                <<"Reserved host \"">> \o host \o <<"\" cannot be used by service \"">>
                    \o serviceId \o <<"\". Reserved hosts: portal, keycloak">>,
                <<"services.">> \o serviceId \o <<".host">>) >>

\* The consistency rules without rule 6 (authType "portal" needs roles)
validateAuthTypeRolesConsistency_NoPortalRule(authType, requiredRoles, serviceId) ==
    LET hasRoles == Len(requiredRoles) > 0
    IN IF authType = "none" /\ hasRoles
       THEN << Err("AUTH_NONE_WITH_ROLES", <<"Service \"">> \o serviceId,
                   <<"services.">> \o serviceId) >>
       ELSE IF authType = "oauth2-proxy" /\ ~hasRoles
       THEN << Err("OAUTH2_PROXY_WITHOUT_ROLES", <<"Service \"">> \o serviceId,
                   <<"services.">> \o serviceId) >>
       ELSE <<>>

validateAuthTypeRolesConsistency(authType, requiredRoles, serviceId) ==
    LET hasRoles == Len(requiredRoles) > 0
    IN IF authType = "none" /\ hasRoles
       THEN << Err("AUTH_NONE_WITH_ROLES",
                   <<"Service \"">> \o serviceId \o <<"\" has authType \"none\" but requiredRoles [">>
                       \o Join(requiredRoles, <<", ">>) \o <<"].">>,
                   <<"services.">> \o serviceId) >>
       ELSE IF authType = "oauth2-proxy" /\ ~hasRoles
       THEN << Err("OAUTH2_PROXY_WITHOUT_ROLES",
                   <<"Service \"">> \o serviceId
                       \o <<"\" has authType \"oauth2-proxy\" but no requiredRoles.">>,
                   <<"services.">> \o serviceId) >>
       ELSE IF authType = "portal" /\ ~hasRoles
       THEN << Err("PORTAL_WITHOUT_ROLES",
                   <<"Service \"">> \o serviceId
                       \o <<"\" has authType \"portal\" but no requiredRoles.">>,
                   <<"services.">> \o serviceId) >>
       ELSE <<>>

validateRolesInAllowList(referencedRoles, allowList, context, path) ==
    Flatten([i \in DOMAIN referencedRoles |->
        IF ~Includes(allowList, referencedRoles[i])
        THEN << Err("ROLE_NOT_IN_ALLOWLIST",
                    <<"Role \"">> \o referencedRoles[i] \o <<"\" used by ">> \o context
                        \o <<" is not in roles allow-list [">> \o Join(allowList, <<", ">>)
                        \o <<"].">>,
                    path) >>
        ELSE <<>>])

validateUsersLocalOnly_IgnoreCase(users, stack) ==
    IF Len(users) = 0 THEN <<>>
    ELSE IF [i \in DOMAIN stack |-> ToLowerChar(stack[i])] = S_local THEN <<>>
    ELSE << Err("USERS_NOT_LOCAL",
                <<"users[] is only allowed on \"local\" stack, not \"">> \o stack
                    \o <<"\". Remove users from deployment.">> \o stack \o <<".json.">>,
                <<"users">>) >>

validateUsersLocalOnly(users, stack) ==
    IF Len(users) = 0 THEN <<>>
    ELSE IF stack = S_local THEN <<>>
    ELSE << Err("USERS_NOT_LOCAL",
                <<"users[] is only allowed on \"local\" stack, not \"">> \o stack
                    \o <<"\". Remove users from deployment.">> \o stack \o <<".json.">>,
                <<"users">>) >>

\* String(index) for the 0-based indices the model uses
IndexStr(i) == <<Digit[i + 1]>>

validateUserConfig(user, index) ==
    LET path == <<"users[">> \o IndexStr(index) \o <<"]">>
    IN (IF ~isValidUsername(user.username)
        THEN << Err("INVALID_USERNAME",
                    <<"Invalid username \"">> \o user.username \o <<"\"">>,
                    path \o <<".username">>) >>
        ELSE <<>>)
       \o
       (IF ~isValidEmail(user.email)
        THEN << Err("INVALID_EMAIL",
                    <<"Invalid email \"">> \o user.email \o <<"\" for user \"">>
                        \o user.username \o <<"\"">>,
                    path \o <<".email">>) >>
        ELSE <<>>)
       \o
       (IF Len(user.roles) = 0
        THEN << Err("USER_NO_ROLES",
                    <<"User \"">> \o user.username \o <<"\" has no roles.">>,
                    path \o <<".roles">>) >>
        ELSE <<>>)
       \o
       Flatten([r \in DOMAIN user.roles |->
           IF ~isValidRole(user.roles[r])
           THEN << Err("INVALID_ROLE_FORMAT",
                       <<"Invalid role \"">> \o user.roles[r] \o <<"\" for user \"">>
                           \o user.username \o <<"\"">>,
                       path \o <<".roles">>) >>
           ELSE <<>>])

validateRoleFormat(role, index) ==
    IF isValidRole(role) THEN <<>>
    ELSE << Err("INVALID_ROLE_FORMAT",
                <<"Invalid role \"">> \o role \o <<"\" at roles[">> \o IndexStr(index) \o <<"]">>,
                <<"roles[">> \o IndexStr(index) \o <<"]">>) >>

\* Errors of one user: validateUserConfig, then the allow-list rule
UserErrors(config, i) ==
    LET user == config.users[i]
    IN validateUserConfig(user, i - 1)
       \o (IF Len(config.roles) > 0
           THEN validateRolesInAllowList(user.roles, config.roles,
                    <<"user \"">> \o user.username \o <<"\"">>,
                    <<"users[">> \o IndexStr(i - 1) \o <<"].roles">>)
           ELSE <<>>)

\* Errors of one service, in the order the rules run
ServiceErrors(config, service, serviceCatalog) ==
    validateServiceIdFormat(service.serviceId)
    \o validateServiceExists(service.serviceId, serviceCatalog)
    \o validateHostFormat(service.host, service.serviceId)
    \o validateNotReservedHost(service.host, service.serviceId)
    \o validateAuthTypeRolesConsistency(service.authType, service.requiredRoles,
                                        service.serviceId)
    \o (IF Len(config.roles) > 0 /\ Len(service.requiredRoles) > 0
        THEN validateRolesInAllowList(service.requiredRoles, config.roles,
                 <<"service \"">> \o service.serviceId \o <<"\"">>,
                 <<"services.">> \o service.serviceId \o <<".requiredRoles">>)
        ELSE <<>>)

\* Duplicate detection that keys the map by host and authType together
DuplicateHostErrors_PerAuthType(services) ==
    LET keys == Distinct([i \in DOMAIN services |-> <<services[i].host, services[i].authType>>])
        idsOf(k) == LET using == SelectSeq(services,
                                     LAMBDA s : s.host = k[1] /\ s.authType = k[2])
                    IN [i \in DOMAIN using |-> using[i].serviceId]
    IN Flatten([k \in DOMAIN keys |->
           IF Len(idsOf(keys[k])) > 1
           THEN << Err("DUPLICATE_HOST",
                       <<"Duplicate host \"">> \o keys[k][1] \o <<"\" used by services: ">>
                           \o Join(idsOf(keys[k]), <<", ">>)
                           \o <<". Each service must have a unique host.">>,
                       <<"services">>) >>
           ELSE <<>>])

\* One error for each pair of services on the same host
DuplicateHostErrors_PerPair(services) ==
    Flatten([i \in DOMAIN services |->
        Flatten([j \in DOMAIN services |->
            IF i < j /\ services[i].host = services[j].host
            THEN << Err("DUPLICATE_HOST",
                        <<"Duplicate host \"">> \o services[i].host
                            \o <<"\" used by services: ">>
                            \o Join(<<services[i].serviceId, services[j].serviceId>>, <<", ">>)
                            \o <<". Each service must have a unique host.">>,
                        <<"services">>) >>
            ELSE <<>>])])

\* hostCounts: the hosts in first-occurrence order, each with the ids using it
DuplicateHostErrors(services) ==
    LET hosts == Distinct([i \in DOMAIN services |-> services[i].host])
        idsOf(h) == LET using == SelectSeq(services, LAMBDA s : s.host = h)
                    IN [i \in DOMAIN using |-> using[i].serviceId]
    IN Flatten([k \in DOMAIN hosts |->
           IF Len(idsOf(hosts[k])) > 1
           THEN << Err("DUPLICATE_HOST",
                       <<"Duplicate host \"">> \o hosts[k] \o <<"\" used by services: ">>
                           \o Join(idsOf(hosts[k]), <<", ">>)
                           \o <<". Each service must have a unique host.">>,
                       <<"services">>) >>
           ELSE <<>>])

validateDeploymentConfig(config, serviceCatalog) ==
    LET errors ==
            Flatten([i \in DOMAIN config.roles |-> validateRoleFormat(config.roles[i], i - 1)])
            \o validateUsersLocalOnly(config.users, config.stackName)
            \o Flatten([i \in DOMAIN config.users |-> UserErrors(config, i)])
            \o Flatten([i \in DOMAIN config.services |->
                           ServiceErrors(config, config.services[i], serviceCatalog)])
            \o DuplicateHostErrors(config.services)
    IN IF Len(errors) = 0
       THEN [valid |-> TRUE, config |-> config, errors |-> <<>>]
       ELSE [valid |-> FALSE, config |-> <<>>, errors |-> errors]

-----------------------------------------------------------------------------
(* Inputs of the compile pipeline                                          *)

MaxServices == 2
MaxUsers == 1

S_badId   == <<"x","-">>
S_badHost == <<"A","p","p">>
S_badRole == <<"Q">>

ServiceIdPool == {S_demo, S_docs, S_badId}
S_Local == <<"L","o","c","a","l">>
StackNames == {S_local, S_prod, S_Local}

RawService(host, requiredRoles, authType) ==
    [portalName |-> <<>>, host |-> host, requiredRoles |-> requiredRoles, authType |-> authType]

\* ServiceConfig values: every combination of an explicit authType with a
\* requiredRoles list, the inferred cases, and explicit hosts (one equal to
\* another service's id, a reserved one, a malformed one)
ServiceConfigs ==
    {RawService(<<>>, r, <<>>) : r \in {<<>>, << <<>> >>, << <<S_dev, S_admin>> >>}}
    \cup {RawService(<<>>, r, <<a>>) :
            r \in {<< <<>> >>, << <<S_dev, S_admin>> >>},
            a \in {"none", "oauth2-proxy", "portal"}}
    \cup {RawService(<<S_demo>>, r, <<>>) : r \in {<<>>, << <<S_admin>> >>}}
    \cup {RawService(<<h>>, <<>>, <<>>) : h \in {S_portal, S_badHost}}

User(username, email, roles) == [username |-> username, email |-> email, roles |-> roles]

\* A well-formed user, and one whose username, email and role are malformed
UserPool ==
    { User(S_admin, <<"a","@","b",".","c">>, <<S_admin>>),
      User(<<"Q">>, <<"q","@","e">>, <<S_badRole>>) }

RawRoles == {<<>>, << <<>> >>, << <<S_dev>> >>, << <<S_dev, S_admin>> >>}

\* Sequences without repetition of at most n elements of S
SeqsNoRep(S, n) ==
    UNION {{s \in [1..k -> S] : \A i, j \in 1..k : i # j => s[i] # s[j]} : k \in 0..n}

\* raw.services: an object keyed by service id
RawServices ==
    UNION {[ids -> ServiceConfigs] : ids \in {s \in SUBSET ServiceIdPool :
                                                Cardinality(s) <= MaxServices}}

\* Object.entries(obj): the <<key, value>> pairs in the object's insertion
\* order, which is the order of the keys in the file: any order
ObjectEntries(obj) ==
    {[i \in DOMAIN ks |-> <<ks[i], obj[ks[i]]>>] :
        ks \in {s \in SeqsNoRep(DOMAIN obj, Cardinality(DOMAIN obj)) :
                  Len(s) = Cardinality(DOMAIN obj)}}

RouteIdle == rpc = "off" /\ dconfig = <<>> /\ routes = <<>> /\ traefik = <<>>
CascadeIdle ==
    /\ lstate = "off" /\ descriptor = <<>> /\ reachable = {} /\ worklist = <<>>
    /\ current = <<>> /\ localCleared = FALSE /\ sessions = {} /\ trace = <<>>
CompileIdle ==
    pc = "off" /\ stackName = <<>> /\ raw = <<>> /\ resolved = <<>> /\ result = <<>>
GenIdle == gpc = "off" /\ inputs = <<>> /\ output = <<>>

-----------------------------------------------------------------------------
(* The compile pipeline: load, resolve, validate                           *)

Init ==
    /\ pc = "input"
    /\ stackName \in StackNames
    /\ raw \in [roles : RawRoles,
                users : SeqsNoRep(UserPool, MaxUsers),
                services : RawServices]
    /\ resolved = <<>>
    /\ result = <<>>
    /\ RouteIdle
    /\ CascadeIdle
    /\ GenIdle

Resolve ==
    /\ pc = "input"
    /\ \E entries \in ObjectEntries(raw.services) :
          resolved' = resolveDeploymentConfig(stackName, [raw EXCEPT !.services = entries])
    /\ pc' = "resolved"
    /\ UNCHANGED <<stackName, raw, result, routeVars, cascadeVars, genVars>>

Validate ==
    /\ pc = "resolved"
    /\ result' = validateDeploymentConfig(resolved, SERVICE_CATALOG)
    /\ pc' = "validated"
    /\ UNCHANGED <<stackName, raw, resolved, routeVars, cascadeVars, genVars>>

Next == Resolve \/ Validate

Spec == Init /\ [][Next]_vars

-----------------------------------------------------------------------------
(* Properties of inference and validation                                  *)

Validated == pc = "validated"
Services == resolved.services

\* C1: in every declaration the validator accepts, each resolved service has
\* authType "none" exactly when its requiredRoles list is empty, whether the
\* authType was explicit or inferred.
C1_AuthTypeIffNoRoles ==
    (Validated /\ result.valid) =>
        \A i \in DOMAIN Services :
            (Services[i].authType = "none") <=> (Services[i].requiredRoles = <<>>)

\* An accepted declaration with an inferred protected service and an
\* explicitly typed one
C1_Witness ==
    /\ Validated /\ result.valid
    /\ \E id \in DOMAIN raw.services :
          /\ raw.services[id].authType = <<>>
          /\ raw.services[id].requiredRoles = << <<S_dev, S_admin>> >>
    /\ \E id \in DOMAIN raw.services : raw.services[id].authType = <<"portal">>

\* The ids a DUPLICATE_HOST message lists after "used by services: "
ListsService(message, serviceId) ==
    \E k \in DOMAIN message :
        /\ message[k] = "\" used by services: "
        /\ Contains(SubSeq(message, k + 1, Len(message)), serviceId)

\* C2: two services with the same host, whatever their authType, make the
\* validator return valid: false with a DUPLICATE_HOST error whose message
\* names both service ids.
C2_DuplicateHostRejected ==
    Validated =>
        \A i, j \in DOMAIN Services :
            (i # j /\ Services[i].host = Services[j].host) =>
                /\ ~result.valid
                /\ \E e \in DOMAIN result.errors :
                      /\ result.errors[e].code = "DUPLICATE_HOST"
                      /\ ListsService(result.errors[e].message, Services[i].serviceId)
                      /\ ListsService(result.errors[e].message, Services[j].serviceId)

\* Two services of different authType on one host, rejected
C2_Witness ==
    /\ Validated
    /\ \E i, j \in DOMAIN Services :
          /\ Services[i].host = Services[j].host
          /\ Services[i].authType = "none" /\ Services[j].authType = "oauth2-proxy"
    /\ \E e \in DOMAIN result.errors : result.errors[e].code = "DUPLICATE_HOST"

\* Roles referenced by the declaration's users and services
ReferencedRoles ==
    UNION {Range(raw.users[i].roles) : i \in DOMAIN raw.users}
    \cup UNION {IF raw.services[id].requiredRoles = <<>> THEN {}
                ELSE Range(raw.services[id].requiredRoles[1]) : id \in DOMAIN raw.services}

\* The message of a ROLE_NOT_IN_ALLOWLIST error for this role
NamesRole(message, role) ==
    /\ message[1] = "Role \""
    /\ SubSeq(message, 2, Len(role) + 1) = role
    /\ message[Len(role) + 2] = "\" used by "

\* C3: with an explicit roles list, a role referenced by a user or a service
\* and missing from the list makes resolve-then-validate return valid: false
\* with a ROLE_NOT_IN_ALLOWLIST error for that role.
C3_RoleOutsideAllowListRejected ==
    (Validated /\ raw.roles # <<>>) =>
        \A role \in ReferencedRoles :
            ~Includes(raw.roles[1], role) =>
                /\ ~result.valid
                /\ \E e \in DOMAIN result.errors :
                      /\ result.errors[e].code = "ROLE_NOT_IN_ALLOWLIST"
                      /\ NamesRole(result.errors[e].message, role)

\* The same with the explicit list non-empty (what the length test lets through)
C3_NonEmptyAllowList ==
    (Validated /\ raw.roles # <<>> /\ raw.roles[1] # <<>>) =>
        \A role \in ReferencedRoles :
            ~Includes(raw.roles[1], role) =>
                /\ ~result.valid
                /\ \E e \in DOMAIN result.errors :
                      /\ result.errors[e].code = "ROLE_NOT_IN_ALLOWLIST"
                      /\ NamesRole(result.errors[e].message, role)

\* What each rule, applied on its own to one role, user or service of the
\* resolved configuration, reports; the allow-list rule applies when the
\* declaration gives the list
RuleFindings ==
    LET config == resolved
        allowListed == raw.roles # <<>>
    IN UNION {Range(validateRoleFormat(config.roles[i], i - 1)) : i \in DOMAIN config.roles}
       \cup Range(validateUsersLocalOnly(config.users, config.stackName))
       \cup UNION {Range(validateUserConfig(config.users[i], i - 1)) : i \in DOMAIN config.users}
       \cup UNION {IF allowListed
                   THEN Range(validateRolesInAllowList(config.users[i].roles, config.roles,
                                  <<"user \"">> \o config.users[i].username \o <<"\"">>,
                                  <<"users[">> \o IndexStr(i - 1) \o <<"].roles">>))
                   ELSE {} : i \in DOMAIN config.users}
       \cup UNION {LET s == config.services[i]
                   IN Range(validateServiceIdFormat(s.serviceId))
                      \cup Range(validateServiceExists(s.serviceId, SERVICE_CATALOG))
                      \cup Range(validateHostFormat(s.host, s.serviceId))
                      \cup Range(validateNotReservedHost(s.host, s.serviceId))
                      \cup Range(validateAuthTypeRolesConsistency(s.authType, s.requiredRoles,
                                                                  s.serviceId))
                      \cup (IF allowListed
                            THEN Range(validateRolesInAllowList(s.requiredRoles, config.roles,
                                           <<"service \"">> \o s.serviceId \o <<"\"">>,
                                           <<"services.">> \o s.serviceId \o <<".requiredRoles">>))
                            ELSE {})
                   : i \in DOMAIN config.services}
       \cup {e \in Range(DuplicateHostErrors(config.services)) : TRUE}

\* C4: the validator evaluates every rule on every role, user and service:
\* each rule violation present in the resolved configuration has its entry
\* in the returned error list, whatever other violations are present.
C4_EveryViolationReported ==
    Validated => \A e \in RuleFindings : Includes(result.errors, e)

\* The same for every rule but the allow-list rule under an empty explicit list
C4_ReportedUnlessEmptyAllowList ==
    (Validated /\ raw.roles # << <<>> >>) =>
        \A e \in RuleFindings : Includes(result.errors, e)

-----------------------------------------------------------------------------
(* traefik/dynamic-config.ts                                               *)
(* A JS object is a sequence of <<key, value>> pairs in insertion order.    *)

\* obj[key] = value: a new key is appended, an existing key keeps its place
ObjSet(obj, key, value) ==
    IF \E i \in DOMAIN obj : obj[i][1] = key
    THEN [i \in DOMAIN obj |-> IF obj[i][1] = key THEN <<key, value>> ELSE obj[i]]
    ELSE Append(obj, <<key, value>>)

ObjKeys(obj) == [i \in DOMAIN obj |-> obj[i][1]]

RouteError(host, message) == [host |-> host, message |-> message]

\* The errors of the route at position i, given the hosts seen before it
RouteErrorsAt(rs, i) ==
    LET host == rs[i].host
    IN (IF \E j \in 1..(i - 1) : rs[j].host = host
        THEN << RouteError(host, <<"Duplicate host: \"">> \o host
                                     \o <<"\" is defined multiple times">>) >>
        ELSE <<>>)
       \o (IF ~isValidSlug(host)
           THEN << RouteError(host, <<"Invalid host slug: \"">> \o host
                                        \o <<"\" must be lowercase alphanumeric with hyphens">>) >>
           ELSE <<>>)
       \o (IF Includes(RESERVED_HOSTS, host)
           THEN << RouteError(host, <<"Reserved host: \"">> \o host
                                        \o <<"\" is reserved for core infrastructure">>) >>
           ELSE <<>>)

\* A validation that stops at the first problem
validateRouteRequests_FirstOnly(rs) ==
    LET all == Flatten([i \in DOMAIN rs |-> RouteErrorsAt(rs, i)])
    IN IF all = <<>> THEN <<>> ELSE <<all[1]>>

validateRouteRequests(rs) == Flatten([i \in DOMAIN rs |-> RouteErrorsAt(rs, i)])

buildSecurityHeadersMiddleware(config) ==
    <<"headers:", "frameDeny: true", "csp: script-src 'self'">>
    \o (IF config.useHttps THEN <<"stsSeconds: 31536000">> ELSE <<>>)

buildKeycloakSecurityHeadersMiddleware(config) ==
    <<"headers:", "frameDeny: false", "csp: script-src 'self' 'unsafe-inline'">>
    \o (IF config.useHttps THEN <<"stsSeconds: 31536000">> ELSE <<>>)

buildRateLimitMiddleware == <<"rateLimit:", "average: 100", "burst: 50", "period: 1s">>

buildInFlightReqMiddleware == <<"inFlightReq:", "amount: 100">>

\* Security headers in production only
shouldApplySecurityHeaders_ProdOnly(config) == config.environment = "prod"

shouldApplySecurityHeaders(config) == config.environment = "prod" \/ config.useHttps

shouldApplyRateLimiting(config) == config.environment = "prod"

Router(config, rule, service, middlewares) ==
    [rule |-> rule,
     service |-> service,
     entryPoints |-> IF config.useHttps THEN <<"websecure">> ELSE <<"web">>,
     middlewares |-> middlewares,
     tls |-> IF config.useHttps THEN <<"certResolver: letsencrypt">> ELSE <<>>]

buildRouter(config, rule, service) ==
    Router(config, rule, service,
           (IF shouldApplyRateLimiting(config) THEN <<"rate-limit", "in-flight-req">> ELSE <<>>)
           \o (IF shouldApplySecurityHeaders(config) THEN <<"security-headers">> ELSE <<>>))

shortName(deploymentId, serviceId) == deploymentId \o <<"-gatrr-">> \o serviceId

buildPortalRoute(config) ==
    [router |-> buildRouter(config, <<"Host(portal.">> \o config.baseDomain \o <<")">>,
                            <<"core-portal">>),
     service |-> <<"http://">> \o shortName(config.deploymentId, S_portal) \o <<":3000">>]

\* A keycloak route that names a middleware the configuration does not define
buildKeycloakRoute_UndefinedHeaders(config) ==
    [router |-> Router(config, <<"Host(keycloak.">> \o config.baseDomain \o <<")">>,
                       <<"core-keycloak">>,
                       (IF shouldApplyRateLimiting(config)
                        THEN <<"rate-limit", "in-flight-req">> ELSE <<>>)
                       \o (IF shouldApplySecurityHeaders(config)
                           THEN <<"keycloak-headers">> ELSE <<>>)),
     service |-> <<"http://">> \o shortName(config.deploymentId, S_keycloak) \o <<":8080">>]

buildKeycloakRoute(config) ==
    [router |-> Router(config, <<"Host(keycloak.">> \o config.baseDomain \o <<")">>,
                       <<"core-keycloak">>,
                       (IF shouldApplyRateLimiting(config)
                        THEN <<"rate-limit", "in-flight-req">> ELSE <<>>)
                       \o (IF shouldApplySecurityHeaders(config)
                           THEN <<"keycloak-security-headers">> ELSE <<>>)),
     service |-> <<"http://">> \o shortName(config.deploymentId, S_keycloak) \o <<":8080">>]

buildBaseDomainRedirect(config) ==
    [router |-> Router(config, <<"Host(">> \o config.baseDomain \o <<")">>,
                       <<"noop@internal">>, <<"redirect-to-portal">>),
     middleware |-> <<"redirectRegex:">>
                    \o (IF config.useHttps THEN <<"https">> ELSE <<"http">>)
                    \o <<"://portal.">> \o config.baseDomain]

buildServiceRoute(config, route) ==
    [routerName |-> <<"host-">> \o route.host,
     serviceName |-> <<"svc-">> \o route.host,
     router |-> buildRouter(config,
                    <<"Host(">> \o route.host \o <<".">> \o config.baseDomain \o <<")">>,
                    <<"svc-">> \o route.host),
     service |-> <<"http://">> \o route.upstream.containerName \o <<":">> \o route.upstream.port]

\* The route list as handed in, unsorted
sortRoutes_Unsorted(rs) == rs

sortRoutes(rs) == SortWith(rs, [p \in Pairs(rs) |-> localeCompare(p[1].host, p[2].host)])

\* The loop over the sorted routes: routers and services after the first n
RECURSIVE AddServiceRoutes(_, _, _)
AddServiceRoutes(config, sorted, acc) ==
    IF sorted = <<>> THEN acc
    ELSE LET sr == buildServiceRoute(config, Head(sorted))
         IN AddServiceRoutes(config, Tail(sorted),
                [routers |-> ObjSet(acc.routers, sr.routerName, sr.router),
                 services |-> ObjSet(acc.services, sr.serviceName, sr.service)])

\* The outcome of generateTraefikConfig: the config, or the thrown error
generateTraefikConfig(config, rs) ==
    LET validationErrors == validateRouteRequests(rs)
        mw1 == IF shouldApplySecurityHeaders(config)
               THEN ObjSet(ObjSet(<<>>, <<"security-headers">>,
                                  buildSecurityHeadersMiddleware(config)),
                           <<"keycloak-security-headers">>,
                           buildKeycloakSecurityHeadersMiddleware(config))
               ELSE <<>>
        mw2 == IF shouldApplyRateLimiting(config)
               THEN ObjSet(ObjSet(mw1, <<"rate-limit">>, buildRateLimitMiddleware),
                           <<"in-flight-req">>, buildInFlightReqMiddleware)
               ELSE mw1
        redirect == buildBaseDomainRedirect(config)
        portalRoute == buildPortalRoute(config)
        keycloakRoute == buildKeycloakRoute(config)
        core == [routers |-> ObjSet(ObjSet(ObjSet(<<>>, <<"redirect-base">>, redirect.router),
                                           <<"core-portal">>, portalRoute.router),
                                    <<"core-keycloak">>, keycloakRoute.router),
                 services |-> ObjSet(ObjSet(<<>>, <<"core-portal">>, portalRoute.service),
                                     <<"core-keycloak">>, keycloakRoute.service)]
        all == AddServiceRoutes(config, sortRoutes(rs), core)
    IN IF Len(validationErrors) > 0
       THEN [ok |-> FALSE,
             error |-> <<"Invalid route requests:">>
                       \o Flatten([i \in DOMAIN validationErrors |->
                                      <<"\n  - ">> \o validationErrors[i].message]),
             http |-> <<>>]
       ELSE [ok |-> TRUE,
             error |-> <<>>,
             http |-> [routers |-> all.routers,
                       services |-> all.services,
                       middlewares |-> ObjSet(mw2, <<"redirect-to-portal">>,
                                              redirect.middleware)]]

\* yaml.stringify of one router: its keys in the order they were set
RouterYaml(r) ==
    <<"rule: ">> \o r.rule \o <<"service: ">> \o r.service
    \o <<"entryPoints: ">> \o r.entryPoints
    \o (IF Len(r.middlewares) > 0 THEN <<"middlewares: ">> \o r.middlewares ELSE <<>>)
    \o (IF Len(r.tls) > 0 THEN <<"tls: ">> \o r.tls ELSE <<>>)

\* yaml.stringify: every map is written in insertion order
serializeTraefikConfig(http) ==
    <<"http:", "routers:">>
    \o Flatten([i \in DOMAIN http.routers |->
                   http.routers[i][1] \o <<":">> \o RouterYaml(http.routers[i][2])])
    \o <<"services:">>
    \o Flatten([i \in DOMAIN http.services |->
                   http.services[i][1] \o <<":">> \o http.services[i][2]])
    \o <<"middlewares:">>
    \o Flatten([i \in DOMAIN http.middlewares |->
                   http.middlewares[i][1] \o <<":">> \o http.middlewares[i][2]])

-----------------------------------------------------------------------------
(* Routing generation: one call of generateTraefikConfigYaml               *)

MaxRoutes == 3

Route(host, containerName, port) ==
    [host |-> host, upstream |-> [containerName |-> containerName, port |-> port]]

\* Route requests: three well-formed hosts (one of them with two upstreams),
\* a reserved host and a malformed one
RoutePool ==
    { Route(S_demo, <<"local-gatrr-demo">>, <<"80">>),
      Route(S_demo, <<"local-gatrr-demo-oauth2-proxy">>, <<"4180">>),
      Route(S_docs, <<"local-gatrr-docs">>, <<"80">>),
      Route(<<"a","-","b">>, <<"local-gatrr-a-b">>, <<"8080">>),
      Route(S_portal, <<"local-gatrr-portal">>, <<"3000">>),
      Route(S_badHost, <<"local-gatrr-app">>, <<"80">>) }

SeqsUpTo(S, n) == UNION {[1..k -> S] : k \in 0..n}

RouteInit ==
    /\ rpc = "input"
    /\ dconfig \in [deploymentId : {<<"local">>},
                    environment : {"dev", "prod"},
                    baseDomain : {<<"example.com">>},
                    useHttps : BOOLEAN]
    /\ routes \in SeqsUpTo(RoutePool, MaxRoutes)
    /\ traefik = <<>>
    /\ CompileIdle
    /\ CascadeIdle
    /\ GenIdle

GenerateRouting ==
    /\ rpc = "input"
    /\ LET out == generateTraefikConfig(dconfig, routes)
       IN traefik' = [ok |-> out.ok, error |-> out.error, http |-> out.http,
                      yaml |-> IF out.ok THEN serializeTraefikConfig(out.http) ELSE <<>>]
    /\ rpc' = "done"
    /\ UNCHANGED <<dconfig, routes, compileVars, cascadeVars, genVars>>

RouteNext == GenerateRouting

RouteSpec == RouteInit /\ [][RouteNext]_vars

\* The orderings of a list
Orderings(s) ==
    {[i \in DOMAIN s |-> s[f[i]]] :
        f \in {g \in [DOMAIN s -> DOMAIN s] : \A i, j \in DOMAIN s : i # j => g[i] # g[j]}}

\* C5: for every config and every route list that passes route validation,
\* generating the routing configuration from any permutation of the list
\* gives the same serialized output.
C5_RoutingPermutationInvariant ==
    (rpc = "done" /\ traefik.ok) =>
        \A p \in Orderings(routes) :
            LET out == generateTraefikConfig(dconfig, p)
            IN out.ok /\ serializeTraefikConfig(out.http) = traefik.yaml

\* A generated configuration for three routes handed in out of host order
C5_Witness ==
    /\ rpc = "done" /\ traefik.ok
    /\ Len(routes) = 3
    /\ localeCompare(routes[1].host, routes[2].host) > 0

-----------------------------------------------------------------------------
(* The portal's logout cascade (docs/deploy.md, "Logout architecture")     *)
(* States: Idle, ClearLocal, ProbeNext, RedirectToService, SkipService,    *)
(* AtService (the browser is on the service's sign-out endpoint), Done.    *)

MaxDescriptorServices == 3

DescriptorNames == <<S_demo, S_docs, S_dozzle, S_logs>>
AuthTypes == {"none", "oauth2-proxy", "portal"}
\* Any received HTTP response counts, whatever its status
StatusCodes == {"200", "403", "503"}
ProbeFailures == {"timeout", "dns", "connection refused"}

Event(kind, service, detail) == [kind |-> kind, service |-> service, detail |-> detail]

\* A list that takes every descriptor entry, whatever its authType
OAuth2ProxyServices_All(entries) == [i \in DOMAIN entries |-> entries[i].name]

\* The descriptor entries the cascade works through, in descriptor order
OAuth2ProxyServices(entries) ==
    LET kept == SelectSeq(entries, LAMBDA s : s.authType = "oauth2-proxy")
    IN [i \in DOMAIN kept |-> kept[i].name]

CascadeInit ==
    /\ lstate = "Idle"
    /\ \E n \in 0..MaxDescriptorServices :
          descriptor \in {[i \in 1..n |-> [name |-> DescriptorNames[i], authType |-> a[i]]] :
                             a \in [1..n -> AuthTypes]}
    /\ reachable \in SUBSET Range(OAuth2ProxyServices(descriptor))
    /\ sessions = Range(OAuth2ProxyServices(descriptor))
    /\ worklist = <<>>
    /\ current = <<>>
    /\ localCleared = FALSE
    /\ trace = <<>>
    /\ CompileIdle
    /\ RouteIdle
    /\ GenIdle

\* The user asks the portal to log out
StartLogout ==
    /\ lstate = "Idle"
    /\ lstate' = "ClearLocal"
    /\ UNCHANGED <<descriptor, reachable, worklist, current, localCleared, sessions, trace,
                   compileVars, routeVars, genVars>>

\* A first step that derives the list and leaves the portal's session alone
ClearLocal_KeepsSession ==
    /\ lstate = "ClearLocal"
    /\ worklist' = OAuth2ProxyServices(descriptor)
    /\ lstate' = "ProbeNext"
    /\ UNCHANGED <<descriptor, reachable, current, localCleared, sessions, trace,
                   compileVars, routeVars, genVars>>

\* Step 1: the portal clears its own cookies and derives the service list
ClearLocal ==
    /\ lstate = "ClearLocal"
    /\ localCleared' = TRUE
    /\ worklist' = OAuth2ProxyServices(descriptor)
    /\ trace' = Append(trace, Event("clear", <<>>, "portal cookies"))
    /\ lstate' = "ProbeNext"
    /\ UNCHANGED <<descriptor, reachable, current, sessions, compileVars, routeVars, genVars>>

\* A pure redirect chain: the probe's outcome is ignored
ProbeNext_NavigateAnyway ==
    /\ lstate = "ProbeNext"
    /\ worklist # <<>>
    /\ current' = <<Head(worklist)>>
    /\ \E outcome \in IF Head(worklist) \in reachable THEN StatusCodes ELSE ProbeFailures :
          trace' = Append(trace, Event("probe", Head(worklist), outcome))
    /\ lstate' = "RedirectToService"
    /\ UNCHANGED <<descriptor, reachable, worklist, localCleared, sessions,
                   compileVars, routeVars, genVars>>

\* A probe that counts only a 200 response as reachable
ProbeNext_OnlyStatus200 ==
    /\ lstate = "ProbeNext"
    /\ worklist # <<>>
    /\ current' = <<Head(worklist)>>
    /\ \E outcome \in IF Head(worklist) \in reachable THEN StatusCodes ELSE ProbeFailures :
          /\ trace' = Append(trace, Event("probe", Head(worklist), outcome))
          /\ lstate' = IF outcome = "200" THEN "RedirectToService" ELSE "SkipService"
    /\ UNCHANGED <<descriptor, reachable, worklist, localCleared, sessions,
                   compileVars, routeVars, genVars>>

\* Step 2: one probe of the next service's base URL, with a short timeout
ProbeNext ==
    /\ lstate = "ProbeNext"
    /\ worklist # <<>>
    /\ current' = <<Head(worklist)>>
    /\ IF Head(worklist) \in reachable
       THEN \E status \in StatusCodes :
               /\ trace' = Append(trace, Event("probe", Head(worklist), status))
               /\ lstate' = "RedirectToService"
       ELSE \E failure \in ProbeFailures :
               /\ trace' = Append(trace, Event("probe", Head(worklist), failure))
               /\ lstate' = "SkipService"
    /\ UNCHANGED <<descriptor, reachable, worklist, localCleared, sessions,
                   compileVars, routeVars, genVars>>

\* Step 3: top-level navigation to <service.url>/oauth2/sign_out?rd=<continuation>
RedirectToService ==
    /\ lstate = "RedirectToService"
    /\ trace' = Append(trace, Event("navigate", current[1], "/oauth2/sign_out?rd="))
    /\ lstate' = "AtService"
    /\ UNCHANGED <<descriptor, reachable, worklist, current, localCleared, sessions,
                   compileVars, routeVars, genVars>>

\* The service clears its oauth2-proxy cookie and redirects back to the portal
ServiceRedirectsBack ==
    /\ lstate = "AtService"
    /\ current[1] \in reachable
    /\ sessions' = sessions \ {current[1]}
    /\ trace' = Append(trace, Event("return", current[1], "rd"))
    /\ worklist' = Tail(worklist)
    /\ current' = <<>>
    /\ lstate' = "ProbeNext"
    /\ UNCHANGED <<descriptor, reachable, localCleared, compileVars, routeVars, genVars>>

\* A skip that leaves the service on the list, so that it is probed again
SkipService_Retry ==
    /\ lstate = "SkipService"
    /\ trace' = Append(trace, Event("skip", current[1], "warning"))
    /\ current' = <<>>
    /\ lstate' = "ProbeNext"
    /\ UNCHANGED <<descriptor, reachable, worklist, localCleared, sessions,
                   compileVars, routeVars, genVars>>

\* Step 4: the probe failed: log a warning and move on without navigating
SkipService ==
    /\ lstate = "SkipService"
    /\ trace' = Append(trace, Event("skip", current[1], "warning"))
    /\ worklist' = Tail(worklist)
    /\ current' = <<>>
    /\ lstate' = "ProbeNext"
    /\ UNCHANGED <<descriptor, reachable, localCleared, sessions, compileVars, routeVars, genVars>>

\* End-session navigation that does not wait for the list to be empty
NavigateToIdp_Early ==
    /\ lstate = "ProbeNext"
    /\ trace' = Append(trace, Event("navigate-idp", <<>>, "end-session"))
    /\ lstate' = "Done"
    /\ UNCHANGED <<descriptor, reachable, worklist, current, localCleared, sessions,
                   compileVars, routeVars, genVars>>

\* Step 5: after the last service, navigate to Keycloak end-session
NavigateToIdp ==
    /\ lstate = "ProbeNext"
    /\ worklist = <<>>
    /\ trace' = Append(trace, Event("navigate-idp", <<>>, "end-session"))
    /\ lstate' = "Done"
    /\ UNCHANGED <<descriptor, reachable, worklist, current, localCleared, sessions,
                   compileVars, routeVars, genVars>>

CascadeNext ==
    \/ StartLogout
    \/ ClearLocal
    \/ ProbeNext
    \/ RedirectToService
    \/ ServiceRedirectsBack
    \/ SkipService
    \/ NavigateToIdp

CascadeSpec == CascadeInit /\ [][CascadeNext]_vars

\* The portal runs each of its steps; a service that is navigated to and is
\* up redirects back.  Starting a logout is the user's choice.
CascadeFairSpec ==
    /\ CascadeSpec
    /\ WF_vars(ClearLocal)
    /\ WF_vars(ProbeNext)
    /\ WF_vars(RedirectToService)
    /\ WF_vars(ServiceRedirectsBack)
    /\ WF_vars(SkipService)
    /\ WF_vars(NavigateToIdp)

-----------------------------------------------------------------------------
(* Properties of the logout cascade                                        *)

ProxyServices == OAuth2ProxyServices(descriptor)
Count(kind, s) ==
    Cardinality({i \in DOMAIN trace : trace[i].kind = kind /\ trace[i].service = s})
Total(kind) == Cardinality({i \in DOMAIN trace : trace[i].kind = kind})
Responded(s) ==
    \E i \in DOMAIN trace :
        trace[i].kind = "probe" /\ trace[i].service = s /\ trace[i].detail \in StatusCodes
ProbeFailed(s) ==
    \E i \in DOMAIN trace :
        trace[i].kind = "probe" /\ trace[i].service = s /\ trace[i].detail \in ProbeFailures
\* The cascade is through with s
Settled(s) == localCleared /\ ~Includes(worklist, s)

\* C7: a started cascade eventually navigates to the identity provider's
\* end-session endpoint, whatever services are unreachable, given that every
\* service navigated to redirects back.
C7_CascadeReachesIdp == (lstate # "Idle") ~> (lstate = "Done")

\* The cascade is done after skipping an unreachable service and visiting a
\* reachable one
C7_Witness ==
    /\ lstate = "Done"
    /\ \E s \in Range(ProxyServices) : s \notin reachable /\ Count("skip", s) = 1
    /\ \E s \in Range(ProxyServices) : s \in reachable /\ Count("return", s) = 1

\* C8: each proxy-auth service is probed once and ends in exactly one of a
\* navigation or a skip; no probe is retried; at the end navigations plus
\* skips equal the number of proxy-auth services.
C8_OneProbeOneOutcome ==
    /\ \A s \in Range(ProxyServices) :
          /\ Count("probe", s) <= 1
          /\ Count("navigate", s) + Count("skip", s) <= 1
    /\ lstate = "Done" =>
          /\ \A s \in Range(ProxyServices) :
                Count("probe", s) = 1 /\ Count("navigate", s) + Count("skip", s) = 1
          /\ Total("navigate") + Total("skip") = Len(ProxyServices)

\* Three proxy-auth services, the second unreachable: two navigations, one skip
C8_Witness ==
    /\ lstate = "Done"
    /\ Len(ProxyServices) = 3
    /\ reachable = {ProxyServices[1], ProxyServices[3]}
    /\ Total("navigate") = 2 /\ Total("skip") = 1

\* C9: the cascade navigates to a service's sign-out endpoint exactly when
\* the probe of that service got an HTTP response, of any status; a service
\* whose probe failed is never navigated to and keeps its session.
C9_NavigateIffResponse ==
    \A s \in Range(ProxyServices) :
        /\ Count("navigate", s) > 0 => Responded(s)
        /\ Settled(s) => (Responded(s) <=> Count("navigate", s) > 0)
        /\ ProbeFailed(s) => Count("navigate", s) = 0 /\ s \in sessions

\* A service that answered 503 was navigated to, another one timed out and
\* was not
C9_Witness ==
    /\ lstate = "Done"
    /\ \E i \in DOMAIN trace :
          /\ trace[i].kind = "probe" /\ trace[i].detail = "503"
          /\ Count("navigate", trace[i].service) = 1
    /\ \E i \in DOMAIN trace :
          /\ trace[i].kind = "probe" /\ trace[i].detail = "timeout"
          /\ trace[i].service \in sessions

\* C10: the end-session navigation happens only after every proxy-auth
\* service was skipped, or navigated to and redirected back.
C10_IdpAfterAllServices ==
    Total("navigate-idp") > 0 =>
        /\ worklist = <<>>
        /\ \A s \in Range(ProxyServices) :
              \/ Count("skip", s) = 1
              \/ Count("navigate", s) = 1 /\ Count("return", s) = 1

\* End-session reached after one skip and one completed visit
C10_Witness ==
    /\ Total("navigate-idp") = 1
    /\ Total("skip") >= 1
    /\ Total("return") >= 1

\* C11: the portal's own session is cleared first: the first observable step
\* of a cascade is the clearing, and every probe, navigation to a service and
\* navigation to the identity provider happens with the session cleared.
C11_ClearLocalFirst ==
    /\ trace # <<>> => trace[1].kind = "clear"
    /\ \A i \in DOMAIN trace :
          trace[i].kind \in {"probe", "navigate", "skip", "navigate-idp"} =>
              localCleared /\ \E j \in 1..(i - 1) : trace[j].kind = "clear"
    /\ lstate \in {"ProbeNext", "RedirectToService", "SkipService", "AtService", "Done"} =>
          localCleared

\* A finished cascade over two services that were both unreachable
C11_Witness ==
    /\ lstate = "Done"
    /\ Len(ProxyServices) = 2
    /\ reachable = {}
    /\ Total("skip") = 2
    /\ trace[1].kind = "clear"

\* Names of the descriptor's entries with authType oauth2-proxy, in order
DescriptorProxyNames ==
    LET RECURSIVE Pick(_)
        Pick(k) ==
            IF k > Len(descriptor) THEN <<>>
            ELSE IF descriptor[k].authType = "oauth2-proxy"
                 THEN <<descriptor[k].name>> \o Pick(k + 1)
                 ELSE Pick(k + 1)
    IN Pick(1)
Probed == LET ps == SelectSeq(trace, LAMBDA e : e.kind = "probe")
          IN [i \in DOMAIN ps |-> ps[i].service]

\* C12: the services probed so far are a prefix of the descriptor's
\* oauth2-proxy entries in descriptor order, the whole list once the cascade
\* is done; a service is probed only after the one before it was skipped or
\* redirected back; no other entry is ever probed or navigated to.
C12_DescriptorOrderOneAtATime ==
    /\ Len(Probed) <= Len(DescriptorProxyNames)
    /\ Probed = SubSeq(DescriptorProxyNames, 1, Len(Probed))
    /\ lstate = "Done" => Probed = DescriptorProxyNames
    /\ \A i \in DOMAIN trace :
          /\ trace[i].service # <<>> => trace[i].service \in Range(DescriptorProxyNames)
          /\ (trace[i].kind = "probe" /\ trace[i].service # DescriptorProxyNames[1]) =>
                \E k \in 2..Len(DescriptorProxyNames), j \in 1..(i - 1) :
                    /\ trace[i].service = DescriptorProxyNames[k]
                    /\ trace[j].service = DescriptorProxyNames[k - 1]
                    /\ trace[j].kind \in {"skip", "return"}

\* A finished cascade over a descriptor with an unprotected entry between
\* two oauth2-proxy entries, the first visited and the second skipped
C12_Witness ==
    /\ lstate = "Done"
    /\ Len(descriptor) = 3
    /\ descriptor[1].authType = "oauth2-proxy"
    /\ descriptor[2].authType = "none"
    /\ descriptor[3].authType = "oauth2-proxy"
    /\ Count("return", descriptor[1].name) = 1
    /\ Count("skip", descriptor[3].name) = 1

-----------------------------------------------------------------------------
(* Host collisions among up to four catalog services                       *)

MaxHostServices == 4

HostIdPool == {S_demo, S_docs, S_dozzle, S_logs}
\* A service with its host inferred from its id or set to one of two hosts
HostServiceConfigs ==
    {RawService(h, r, <<>>) : h \in {<<>>, <<S_demo>>, <<S_docs>>},
                              r \in {<<>>, << <<S_admin>> >>}}
HostRawServices ==
    UNION {[ids -> HostServiceConfigs] : ids \in {s \in SUBSET HostIdPool :
                                                    Cardinality(s) <= MaxHostServices}}

HostInit ==
    /\ pc = "input"
    /\ stackName = S_local
    /\ raw \in [roles : {<<>>}, users : {<<>>}, services : HostRawServices]
    /\ resolved = <<>>
    /\ result = <<>>
    /\ RouteIdle
    /\ CascadeIdle
    /\ GenIdle

HostSpec == HostInit /\ [][Next]_vars

DuplicateHostErrorsOf == SelectSeq(result.errors, LAMBDA e : e.code = "DUPLICATE_HOST")
DuplicatedHosts ==
    {Services[i].host : i \in {k \in DOMAIN Services :
                                 \E j \in DOMAIN Services : j # k /\ Services[j].host = Services[k].host}}
\* The host a DUPLICATE_HOST message is about
NamesHost(message, host) ==
    /\ message[1] = "Duplicate host \""
    /\ SubSeq(message, 2, Len(host) + 1) = host
    /\ message[Len(host) + 2] = "\" used by services: "

\* C13 (as stated): whenever services collide on hosts there is exactly one
\* DUPLICATE_HOST error, and it lists the id of every service that shares
\* its host with another.
C13_OneAggregateError ==
    (Validated /\ DuplicatedHosts # {}) =>
        /\ Len(DuplicateHostErrorsOf) = 1
        /\ \A i \in DOMAIN Services :
              Services[i].host \in DuplicatedHosts =>
                  ListsService(DuplicateHostErrorsOf[1].message, Services[i].serviceId)

\* C13 (amended): there is exactly one DUPLICATE_HOST error for each host
\* used by more than one service; it names that host and lists the ids of
\* exactly the services on that host.
C13_OneErrorPerDuplicatedHost ==
    Validated =>
        /\ Len(DuplicateHostErrorsOf) = Cardinality(DuplicatedHosts)
        /\ \A h \in DuplicatedHosts :
              \E e \in DOMAIN DuplicateHostErrorsOf :
                  /\ NamesHost(DuplicateHostErrorsOf[e].message, h)
                  /\ \A f \in DOMAIN DuplicateHostErrorsOf :
                        NamesHost(DuplicateHostErrorsOf[f].message, h) => f = e
                  /\ \A i \in DOMAIN Services :
                        ListsService(DuplicateHostErrorsOf[e].message, Services[i].serviceId)
                            <=> Services[i].host = h

\* Four services, two hosts each used by two of them: two errors
C13_Witness ==
    /\ Validated
    /\ Len(Services) = 4
    /\ Cardinality(DuplicatedHosts) = 2
    /\ Len(DuplicateHostErrorsOf) = 2

-----------------------------------------------------------------------------
(* Properties of route validation                                          *)

\* The problems of a route list, stated on the list itself: the line each
\* one has in the error message
RouteProblemLines ==
    {<<"\n  - ", "Duplicate host: \"">> \o routes[i].host \o <<"\" is defined multiple times">> :
        i \in {k \in DOMAIN routes : \E j \in 1..(k - 1) : routes[j].host = routes[k].host}}
    \cup {<<"\n  - ", "Invalid host slug: \"">> \o routes[i].host
              \o <<"\" must be lowercase alphanumeric with hyphens">> :
        i \in {k \in DOMAIN routes : ~isValidSlug(routes[k].host)}}
    \cup {<<"\n  - ", "Reserved host: \"">> \o routes[i].host
              \o <<"\" is reserved for core infrastructure">> :
        i \in {k \in DOMAIN routes : routes[k].host \in {S_portal, S_keycloak}}}
RouteProblemCount ==
    Cardinality({k \in DOMAIN routes : \E j \in 1..(k - 1) : routes[j].host = routes[k].host})
    + Cardinality({k \in DOMAIN routes : ~isValidSlug(routes[k].host)})
    + Cardinality({k \in DOMAIN routes : routes[k].host \in {S_portal, S_keycloak}})

\* C14: a route list with a duplicate, malformed or reserved host makes
\* generateTraefikConfig raise one error whose message has a line for every
\* such problem, and no routers, services or serialized configuration exist.
C14_RouteProblemsAbortWithAllListed ==
    (rpc = "done" /\ RouteProblemCount > 0) =>
        /\ ~traefik.ok
        /\ traefik.http = <<>> /\ traefik.yaml = <<>>
        /\ traefik.error[1] = "Invalid route requests:"
        /\ \A line \in RouteProblemLines : Contains(traefik.error, line)
        /\ Cardinality({k \in DOMAIN traefik.error : traefik.error[k] = "\n  - "})
              = RouteProblemCount

\* A rejected list with a reserved host used twice and a malformed host:
\* four problems
C14_Witness ==
    /\ rpc = "done" /\ ~traefik.ok
    /\ Len(routes) = 3
    /\ routes[1].host = S_portal /\ routes[2].host = S_portal
    /\ routes[3].host = S_badHost
    /\ RouteProblemCount = 4

-----------------------------------------------------------------------------
(* The Keycloak realm import (keycloak/index.ts, realm-import part)         *)

\* buildUrl: an absent or empty subdomain gives the base domain itself
buildUrl(config, subdomain) ==
    <<IF config.useHttps THEN "https" ELSE "http", "://">>
        \o (IF subdomain # <<>> THEN subdomain \o <<".">> \o config.baseDomain
            ELSE config.baseDomain)

S_oauth2Proxy == <<"o","a","u","t","h","2","-","p","r","o","x","y","-">>

\* A client request that registers the service URL without the callback path
buildClientRequest_OriginOnly(config, serviceId) ==
    LET serviceUrl == buildUrl(config, serviceId)
    IN [clientId |-> S_oauth2Proxy \o serviceId,
        serviceId |-> serviceId,
        redirectUris |-> <<serviceUrl>>,
        webOrigins |-> <<serviceUrl>>]

buildClientRequest(config, serviceId) ==
    LET serviceUrl == buildUrl(config, serviceId)
    IN [clientId |-> S_oauth2Proxy \o serviceId,
        serviceId |-> serviceId,
        redirectUris |-> << serviceUrl \o <<"/oauth2/callback">> >>,
        webOrigins |-> <<serviceUrl>>]

\* A portal client that accepts any path under the portal URL
buildPortalClient_Wildcard(config, portalClientSecret) ==
    LET portalUrl == buildUrl(config, S_portal)
    IN [clientId |-> S_portal,
        name |-> <<"Portal">>,
        secret |-> portalClientSecret,
        redirectUris |-> << portalUrl \o <<"/*">> >>,
        webOrigins |-> <<portalUrl>>,
        postLogoutRedirectUris |-> portalUrl \o <<"/auth/logout/complete##">>
                                      \o portalUrl \o <<"/auth/logout/">>,
        publicClient |-> FALSE,
        protocolMappers |-> <<"portal-audience", "realm-roles">>]

buildPortalClient(config, portalClientSecret) ==
    LET portalUrl == buildUrl(config, S_portal)
    IN [clientId |-> S_portal,
        name |-> <<"Portal">>,
        secret |-> portalClientSecret,
        redirectUris |-> << portalUrl \o <<"/auth/callback">> >>,
        webOrigins |-> <<portalUrl>>,
        postLogoutRedirectUris |-> portalUrl \o <<"/auth/logout/complete##">>
                                      \o portalUrl \o <<"/auth/logout/">>,
        publicClient |-> FALSE,
        protocolMappers |-> <<"portal-audience", "realm-roles">>]

buildOAuth2ProxyClient(clientRequest, clientSecret) ==
    [clientId |-> clientRequest.clientId,
     name |-> <<"OAuth2 Proxy - ">> \o clientRequest.serviceId,
     secret |-> clientSecret,
     redirectUris |-> clientRequest.redirectUris,
     webOrigins |-> clientRequest.webOrigins,
     postLogoutRedirectUris |-> Join(clientRequest.webOrigins, <<"##">>),
     publicClient |-> FALSE,
     protocolMappers |-> <<"realm-roles-mapper">>]

getRoleDescription(role) ==
    IF role = S_admin
    THEN <<"Administrator role - full access to all protected services">>
    ELSE IF role = S_dev
    THEN <<"Developer role - access to standard protected services">>
    ELSE <<"Access role: ">> \o role

buildRealmRoles(deploymentConfig) ==
    [i \in DOMAIN deploymentConfig.roles |->
        [name |-> deploymentConfig.roles[i],
         description |-> getRoleDescription(deploymentConfig.roles[i])]]

buildKeycloakUser(user, password, realmName) ==
    [username |-> user.username,
     email |-> user.email,
     firstName |-> user.username,
     lastName |-> <<"User">>,
     credentials |-> << [type |-> "password", value |-> password, temporary |-> FALSE] >>,
     realmRoles |-> << <<"default-roles-">> \o realmName >> \o user.roles]

\* record[key] of a Record<string, string>: <<>> is undefined, <<v>> the
\* value v; undefined and the empty string are both falsy
Lookup(record, key) == IF key \in DOMAIN record THEN record[key] ELSE <<>>
Truthy(value) == value # <<>> /\ value[1] # <<>>

\* The outcome of buildRealmImport: the realm document, or the thrown error
buildRealmImport(in) ==
    LET config == in.config
        sortedClientRequests ==
            SortWith(in.clientRequests,
                     [p \in Pairs(in.clientRequests) |->
                         localeCompare(p[1].serviceId, p[2].serviceId)])
        clients ==
            <<buildPortalClient(config, in.portalClientSecret)>>
            \o Flatten([i \in DOMAIN sortedClientRequests |->
                  LET secret == Lookup(in.oauth2ProxyClientSecrets,
                                       sortedClientRequests[i].serviceId)
                  IN IF Truthy(secret)
                     THEN <<buildOAuth2ProxyClient(sortedClientRequests[i], secret[1])>>
                     ELSE <<>>])
        realmRoles == buildRealmRoles(in.deploymentConfig)
        users == in.deploymentConfig.users
        missing == {i \in DOMAIN users : ~Truthy(Lookup(in.userPasswords, users[i].username))}
        first == CHOOSE i \in missing : \A j \in missing : i <= j
    IN IF missing # {}
       THEN [ok |-> FALSE,
             error |-> <<"Missing password for user \"">> \o users[first].username
                          \o <<"\". This should have been caught by validation.">>,
             realm |-> <<>>]
       ELSE [ok |-> TRUE,
             error |-> <<>>,
             realm |-> [realm |-> config.keycloakRealm,
                        enabled |-> TRUE,
                        sslRequired |-> IF config.useHttps THEN "external" ELSE "none",
                        registrationAllowed |-> FALSE,
                        roles |-> [realm |-> realmRoles],
                        clients |-> clients,
                        users |-> [i \in DOMAIN users |->
                                     buildKeycloakUser(users[i],
                                                       Lookup(in.userPasswords,
                                                              users[i].username)[1],
                                                       config.keycloakRealm)]]]

MaxClientRequests == 2
MaxRealmUsers == 2

RealmServiceIds == {S_demo, S_docs, S_dozzle}
RealmUsers ==
    { User(S_admin, <<"a","@","b",".","c">>, <<S_admin>>),
      User(S_dev, <<"d","@","b",".","c">>, <<S_dev, S_admin>>) }
\* A secret under a key: undefined, the empty string, or a value
SecretsFor(keys) ==
    [keys -> {<<>>, << <<>> >>}] \cup
    {[k \in keys |-> IF k \in present THEN << <<"secret-">> \o k >> ELSE f[k]] :
        present \in SUBSET keys, f \in [keys -> {<<>>, << <<>> >>}]}
RealmConfigs ==
    [deploymentId : {S_local}, keycloakRealm : {S_dev},
     baseDomain : {<<"localhost">>}, useHttps : BOOLEAN]

RealmInit ==
    /\ gpc = "input"
    /\ \E config \in RealmConfigs :
          inputs \in [config : {config},
                      portalClientSecret : {<<"portal-secret">>},
                      oauth2ProxyClientSecrets : SecretsFor(RealmServiceIds),
                      clientRequests :
                          SeqsNoRep({buildClientRequest(config, id) : id \in RealmServiceIds},
                                    MaxClientRequests),
                      deploymentConfig :
                          [roles : {<<S_admin, S_dev>>, <<S_admin, S_dev, <<"o","p","s">> >>},
                           users : SeqsNoRep(RealmUsers, MaxRealmUsers)],
                      userPasswords : SecretsFor({S_admin, S_dev})]
    /\ output = <<>>
    /\ CompileIdle
    /\ RouteIdle
    /\ CascadeIdle

BuildRealm ==
    /\ gpc = "input"
    /\ output' = buildRealmImport(inputs)
    /\ gpc' = "done"
    /\ UNCHANGED <<inputs, compileVars, routeVars, cascadeVars>>

RealmNext == BuildRealm

RealmSpec == RealmInit /\ [][RealmNext]_vars

\* C15: buildRealmImport returns no partial realm document: a returned
\* document has one sidecar client for each client request and one user for
\* each bootstrap user, and a request whose client secret is missing, or a
\* user whose password is missing, makes it raise.
C15_NoPartialRealm ==
    gpc = "done" =>
        /\ output.ok =>
              /\ \A i \in DOMAIN inputs.clientRequests :
                    \E c \in DOMAIN output.realm.clients :
                        output.realm.clients[c].clientId = inputs.clientRequests[i].clientId
              /\ Len(output.realm.clients) = 1 + Len(inputs.clientRequests)
              /\ Len(output.realm.users) = Len(inputs.deploymentConfig.users)
        /\ (\E i \in DOMAIN inputs.clientRequests :
               ~Truthy(Lookup(inputs.oauth2ProxyClientSecrets,
                              inputs.clientRequests[i].serviceId))) => ~output.ok
        /\ (\E i \in DOMAIN inputs.deploymentConfig.users :
               ~Truthy(Lookup(inputs.userPasswords,
                              inputs.deploymentConfig.users[i].username))) => ~output.ok

\* The half the code keeps: a missing password raises, and a returned
\* document has one user for each bootstrap user
C15_MissingPasswordRaises ==
    gpc = "done" =>
        /\ output.ok =>
              Len(output.realm.users) = Len(inputs.deploymentConfig.users)
        /\ (\E i \in DOMAIN inputs.deploymentConfig.users :
               ~Truthy(Lookup(inputs.userPasswords,
                              inputs.deploymentConfig.users[i].username))) => ~output.ok

-----------------------------------------------------------------------------
(* The portal descriptor (descriptor/index.ts)                             *)

\* Collation keys under {sensitivity: "base", numeric: true}: letters by
\* primary weight whatever their case, a run of digits by its value
RECURSIVE DigitRun(_)
DigitRun(s) == IF s # <<>> /\ IsDigit(Head(s)) THEN <<Head(s)>> \o DigitRun(Tail(s)) ELSE <<>>
RECURSIVE DigitsValue(_)
DigitsValue(ds) ==
    IF ds = <<>> THEN 0
    ELSE 10 * DigitsValue(SubSeq(ds, 1, Len(ds) - 1)) + (IndexIn[ds[Len(ds)]] - 1)
RECURSIVE CollationKeys(_)
CollationKeys(s) ==
    IF s = <<>> THEN <<>>
    ELSE IF IsDigit(Head(s))
         THEN LET run == DigitRun(s)
              IN <<50 + DigitsValue(run)>> \o CollationKeys(SubSeq(s, Len(run) + 1, Len(s)))
         ELSE <<PrimaryWeight[Head(s)]>> \o CollationKeys(Tail(s))

\* U+FFFF, the stand-in for a missing group: above every other string
S_uffff == <<"\\uffff">>

compareStrings(a, b) ==
    LexCompare(IF a = S_uffff THEN <<1000>> ELSE CollationKeys(a),
               IF b = S_uffff THEN <<1000>> ELSE CollationKeys(b))

\* The comparator of sortPortalServices
comparePortalServices(a, b) ==
    LET groupA == IF a.group = <<>> THEN S_uffff ELSE a.group[1]
        groupB == IF b.group = <<>> THEN S_uffff ELSE b.group[1]
    IN IF groupA # groupB THEN compareStrings(groupA, groupB)
       ELSE compareStrings(a.name, b.name)

\* A copy of the list in the order given
sortPortalServices_Unsorted(services) == services

sortPortalServices(services) ==
    SortWith(services, [p \in Pairs(services) |-> comparePortalServices(p[1], p[2])])

\* The descriptor schema's rules for a service entry, as the generated
\* types document them: for authType none, protected is false and
\* requiredRealmRoles is absent; for oauth2-proxy and portal, protected is
\* true and requiredRealmRoles is present and not empty.  One error a rule.
ServiceSchemaErrors(service, index) ==
    LET path == <<"/services/", Digit[index + 1]>>
    IN (IF service.protected # (service.authType # "none")
        THEN << [instancePath |-> path \o <<"/protected">>,
                 message |-> <<"must be equal to constant">>] >>
        ELSE <<>>)
       \o (IF service.authType = "none" /\ service.requiredRealmRoles # <<>>
           THEN << [instancePath |-> path, message |-> <<"must NOT be valid">>] >>
           ELSE <<>>)
       \o (IF service.authType # "none" /\ service.requiredRealmRoles = <<>>
           THEN << [instancePath |-> path,
                    message |-> <<"must have required property 'requiredRealmRoles'">>] >>
           ELSE <<>>)
       \o (IF service.authType # "none" /\ service.requiredRealmRoles = << <<>> >>
           THEN << [instancePath |-> path \o <<"/requiredRealmRoles">>,
                    message |-> <<"must NOT have fewer than 1 items">>] >>
           ELSE <<>>)

\* validateDescriptorSchema: <<>> if the descriptor is valid, else the
\* message of the error it throws
validateDescriptorSchema_Passes(descriptorValue) == <<>>

validateDescriptorSchema(descriptorValue) ==
    LET errors == Flatten([i \in DOMAIN descriptorValue.services |->
                              ServiceSchemaErrors(descriptorValue.services[i], i - 1)])
    IN IF errors = <<>> THEN <<>>
       ELSE <<"Descriptor schema validation failed:">>
            \o Flatten([i \in DOMAIN errors |->
                   <<"\n  - ">> \o errors[i].instancePath \o <<": ">> \o errors[i].message])

\* The outcome of generateDescriptor: the descriptor, or the thrown error
generateDescriptor(config, services) ==
    LET portalUrl == buildUrl(config, S_portal)
        keycloakUrl == buildUrl(config, S_keycloak)
        sortedServices == sortPortalServices(services)
        built == [version |-> "1",
                  deploymentId |-> config.deploymentId,
                  environment |-> config.environment,
                  baseDomain |-> config.baseDomain,
                  portal |-> [publicUrl |-> portalUrl],
                  keycloak |-> [publicUrl |-> keycloakUrl,
                                issuerUrl |-> keycloakUrl \o <<"/realms/">>
                                                 \o config.keycloakRealm,
                                realm |-> config.keycloakRealm],
                  services |-> sortedServices]
        thrown == validateDescriptorSchema(built)
    IN IF thrown # <<>>
       THEN [ok |-> FALSE, error |-> thrown, descriptor |-> <<>>]
       ELSE [ok |-> TRUE, error |-> <<>>, descriptor |-> built]

MaxDescriptorEntries == 3

Service(id, name, protected, authType, group, requiredRealmRoles) ==
    [id |-> id, name |-> name,
     url |-> <<"http", "://">> \o id \o <<".", "localhost">>,
     protected |-> protected, authType |-> authType, group |-> group,
     requiredRealmRoles |-> requiredRealmRoles]

\* Public entries that differ in group and name; entries of one group and
\* name that differ in protected, authType and requiredRealmRoles
ServicePool ==
    {Service(n, n, FALSE, "none", g, <<>>) :
        n \in {<<"a","2">>, <<"a","1","0">>, <<"z">>},
        g \in {<<>>, << <<"a","p","p","s">> >>, << <<"A","p","p","s">> >>}}
    \cup {Service(S_demo, <<"m">>, p, a, << <<"a","p","p","s">> >>, r) :
            p \in BOOLEAN, a \in AuthTypes, r \in {<<>>, << <<S_dev>> >>}}
    \cup {Service(S_demo, <<"m">>, TRUE, "oauth2-proxy", << <<"a","p","p","s">> >>, << <<>> >>)}

DescriptorInit ==
    /\ gpc = "input"
    /\ inputs \in [config : [deploymentId : {S_local}, environment : {"dev"},
                             baseDomain : {<<"localhost">>}, useHttps : {FALSE},
                             keycloakRealm : {S_dev}],
                   services : SeqsUpTo(ServicePool, MaxDescriptorEntries)]
    /\ output = <<>>
    /\ CompileIdle
    /\ RouteIdle
    /\ CascadeIdle

GenerateDescriptor ==
    /\ gpc = "input"
    /\ output' = generateDescriptor(inputs.config, inputs.services)
    /\ gpc' = "done"
    /\ UNCHANGED <<inputs, compileVars, routeVars, cascadeVars>>

DescriptorNext == GenerateDescriptor

DescriptorSpec == DescriptorInit /\ [][DescriptorNext]_vars

\* What the claim asks of one service entry
EntryConsistent(s) ==
    /\ s.protected = (s.authType # "none")
    /\ (s.authType = "none") = (s.requiredRealmRoles = <<>>)
    /\ s.authType # "none" => s.requiredRealmRoles # << <<>> >>

\* C16: every descriptor that generateDescriptor returns has, in each
\* service entry, protected equal to (authType # "none") and required roles
\* exactly when the authType is a protected one; supplied entries that break
\* this make it raise with the schema errors and return no descriptor.
C16_DescriptorEntriesConsistent ==
    gpc = "done" =>
        /\ output.ok =>
              \A i \in DOMAIN output.descriptor.services :
                  EntryConsistent(output.descriptor.services[i])
        /\ (\E i \in DOMAIN inputs.services : ~EntryConsistent(inputs.services[i])) =>
              /\ ~output.ok
              /\ output.descriptor = <<>>
              /\ output.error[1] = "Descriptor schema validation failed:"
              /\ Cardinality({k \in DOMAIN output.error : output.error[k] = "\n  - "})
                    >= Cardinality({i \in DOMAIN inputs.services :
                                       ~EntryConsistent(inputs.services[i])})

\* A rejected list with a consistent entry, an unprotected oauth2-proxy
\* entry and a protected entry with authType none
C16_Witness ==
    /\ gpc = "done" /\ ~output.ok
    /\ Len(inputs.services) = 3
    /\ EntryConsistent(inputs.services[1])
    /\ inputs.services[2].authType = "oauth2-proxy" /\ ~inputs.services[2].protected
    /\ inputs.services[3].authType = "none" /\ inputs.services[3].protected

GroupOf(s) == IF s.group = <<>> THEN S_uffff ELSE s.group[1]
Emitted == output.descriptor.services

\* C17: in a generated descriptor no entry comes after an entry of a later
\* group, entries of the same group are in the order of their names, and
\* every entry without a group comes after every entry with one; the order
\* is that of the fixed collator.
C17_SortedByGroupThenName ==
    (gpc = "done" /\ output.ok) =>
        \A i, j \in DOMAIN Emitted :
            i < j =>
                /\ compareStrings(GroupOf(Emitted[i]), GroupOf(Emitted[j])) <= 0
                /\ Emitted[i].group = Emitted[j].group =>
                      compareStrings(Emitted[i].name, Emitted[j].name) <= 0
                /\ Emitted[i].group = <<>> => Emitted[j].group = <<>>

\* The same for lists in which no two groups differ only in case (where
\* the comparator is consistent)
C17_SortedWhenNoCaseVariantGroups ==
    (gpc = "done" /\ output.ok
       /\ \A i, j \in DOMAIN inputs.services :
             compareStrings(GroupOf(inputs.services[i]), GroupOf(inputs.services[j])) = 0
                 => inputs.services[i].group = inputs.services[j].group) =>
        \A i, j \in DOMAIN Emitted :
            i < j =>
                /\ compareStrings(GroupOf(Emitted[i]), GroupOf(Emitted[j])) <= 0
                /\ Emitted[i].group = Emitted[j].group =>
                      compareStrings(Emitted[i].name, Emitted[j].name) <= 0
                /\ Emitted[i].group = <<>> => Emitted[j].group = <<>>

-----------------------------------------------------------------------------
(* Protected services (deployment-config/protected-services.ts)            *)

\* The filtered and projected list, left in the order of config.services
getProtectedServices_Unsorted(config) ==
    LET kept == SelectSeq(config.services, LAMBDA svc : svc.authType = "oauth2-proxy")
    IN [i \in DOMAIN kept |-> [serviceId |-> kept[i].serviceId,
                               host |-> kept[i].host,
                               requiredRoles |-> kept[i].requiredRoles]]

getProtectedServices(config) ==
    LET kept == SelectSeq(config.services, LAMBDA svc : svc.authType = "oauth2-proxy")
        mapped == [i \in DOMAIN kept |-> [serviceId |-> kept[i].serviceId,
                                          host |-> kept[i].host,
                                          requiredRoles |-> kept[i].requiredRoles]]
    IN SortWith(mapped, [p \in Pairs(mapped) |->
                            localeCompare(p[1].serviceId, p[2].serviceId)])

MaxProtectedServices == 3

\* Resolved services: each id with its own host or a declared one, public,
\* behind oauth2-proxy or protected by the portal
ResolvedServicePool ==
    UNION {{[serviceId |-> id, portalName |-> capitalizeWord(id), host |-> h,
             authType |-> a[1], requiredRoles |-> a[2]] :
               h \in {id, <<"a","p","p">>},
               a \in {<<"none", <<>>>>, <<"oauth2-proxy", <<S_dev, S_admin>>>>,
                      <<"portal", <<S_admin>>>>}} :
           id \in {S_demo, S_docs, S_dozzle}}

ProtectedInit ==
    /\ gpc = "input"
    /\ inputs \in [stackName : {S_local}, roles : {<<S_admin, S_dev>>}, users : {<<>>},
                   services : {s \in SeqsNoRep(ResolvedServicePool, MaxProtectedServices) :
                                 \A i, j \in DOMAIN s :
                                     i # j => s[i].serviceId # s[j].serviceId}]
    /\ output = <<>>
    /\ CompileIdle
    /\ RouteIdle
    /\ CascadeIdle

DeriveProtected ==
    /\ gpc = "input"
    /\ output' = getProtectedServices(inputs)
    /\ gpc' = "done"
    /\ UNCHANGED <<inputs, compileVars, routeVars, cascadeVars>>

ProtectedSpec == ProtectedInit /\ [][DeriveProtected]_vars

\* C18: the derived list has exactly one entry {serviceId, host,
\* requiredRoles} for each resolved service with authType oauth2-proxy, no
\* entry for a service with authType none or portal, and is in ascending
\* serviceId order under en-US collation whatever the order of the input.
C18_PoliciesExactAndSorted ==
    gpc = "done" =>
        /\ \A i \in DOMAIN inputs.services :
              LET svc == inputs.services[i]
                  entries == {k \in DOMAIN output : output[k].serviceId = svc.serviceId}
              IN IF svc.authType = "oauth2-proxy"
                 THEN /\ Cardinality(entries) = 1
                      /\ \A k \in entries :
                            output[k] = [serviceId |-> svc.serviceId, host |-> svc.host,
                                         requiredRoles |-> svc.requiredRoles]
                 ELSE entries = {}
        /\ \A k \in DOMAIN output :
              \E i \in DOMAIN inputs.services : inputs.services[i].serviceId = output[k].serviceId
        /\ \A k, l \in DOMAIN output :
              k < l => localeCompare(output[k].serviceId, output[l].serviceId) < 0

\* Three services given in descending id order, the middle one protected by
\* the portal: two entries, in ascending order
C18_Witness ==
    /\ gpc = "done"
    /\ Len(inputs.services) = 3
    /\ inputs.services[1].serviceId = S_dozzle /\ inputs.services[1].authType = "oauth2-proxy"
    /\ inputs.services[2].serviceId = S_docs /\ inputs.services[2].authType = "portal"
    /\ inputs.services[3].serviceId = S_demo /\ inputs.services[3].authType = "oauth2-proxy"
    /\ Len(output) = 2
    /\ output[1].serviceId = S_demo /\ output[2].serviceId = S_dozzle

-----------------------------------------------------------------------------
(* oauth2-proxy/config.ts: the sidecar environment                         *)

buildWhitelistDomains(baseDomain) ==
    IF baseDomain = <<"localhost">> THEN <<".localhost">> ELSE <<".">> \o baseDomain

\* Each variable is the string KEY=value: the key, "=", then the value
Env(key, value) == <<key, "=">> \o value

buildOAuth2ProxyEnvs_SortedGroups(in) ==
    LET config == in.config
        serviceUrl == buildUrl(config, IF in.host # <<>> THEN in.host[1] ELSE in.serviceId)
        oidcIssuerUrl == IF config.environment = "dev" THEN in.keycloakInternalIssuerUrl
                         ELSE in.keycloakPublicIssuerUrl
        groups == SortWith(in.requiredRealmRoles,
                           [p \in Pairs(in.requiredRealmRoles) |-> localeCompare(p[1], p[2])])
    IN << Env("OAUTH2_PROXY_PROVIDER", <<"oidc">>),
          Env("OAUTH2_PROXY_OIDC_ISSUER_URL", oidcIssuerUrl),
          Env("OAUTH2_PROXY_CLIENT_ID", S_oauth2Proxy \o in.serviceId),
          Env("OAUTH2_PROXY_CLIENT_SECRET", in.clientSecret),
          Env("OAUTH2_PROXY_INSECURE_OIDC_SKIP_ISSUER_VERIFICATION",
              IF config.environment = "dev" THEN <<"true">> ELSE <<"false">>),
          Env("OAUTH2_PROXY_SCOPE", <<"openid email profile">>),
          Env("OAUTH2_PROXY_COOKIE_SECRET", in.cookieSecret),
          Env("OAUTH2_PROXY_COOKIE_NAME", <<"_oauth2_proxy_">> \o in.serviceId),
          Env("OAUTH2_PROXY_COOKIE_SAMESITE", <<"lax">>),
          Env("OAUTH2_PROXY_COOKIE_SECURE",
              IF config.useHttps THEN <<"true">> ELSE <<"false">>),
          Env("OAUTH2_PROXY_UPSTREAMS",
              <<"http://">> \o in.upstreamContainerName \o <<":", in.upstreamPort, "/">>),
          Env("OAUTH2_PROXY_REDIRECT_URL", serviceUrl \o <<"/oauth2/callback">>),
          Env("OAUTH2_PROXY_WHITELIST_DOMAINS", buildWhitelistDomains(config.baseDomain)),
          Env("OAUTH2_PROXY_HTTP_ADDRESS", <<"0.0.0.0:4180">>),
          Env("OAUTH2_PROXY_EMAIL_DOMAINS", <<"*">>),
          Env("OAUTH2_PROXY_SKIP_PROVIDER_BUTTON", <<"true">>),
          Env("OAUTH2_PROXY_PASS_ACCESS_TOKEN", <<"true">>),
          Env("OAUTH2_PROXY_PASS_AUTHORIZATION_HEADER", <<"true">>),
          Env("OAUTH2_PROXY_SET_XAUTHREQUEST", <<"true">>),
          Env("OAUTH2_PROXY_SILENCE_PING_LOGGING", <<"true">>),
          Env("OAUTH2_PROXY_OIDC_GROUPS_CLAIM", <<"groups">>),
          Env("OAUTH2_PROXY_ALLOWED_GROUPS", Join(groups, <<",">>)) >>

\* Issuer verification keyed on the TLS flag instead of the environment
buildOAuth2ProxyEnvs_SkipWithoutTls(in) ==
    LET config == in.config
        serviceUrl == buildUrl(config, IF in.host # <<>> THEN in.host[1] ELSE in.serviceId)
        oidcIssuerUrl == IF config.environment = "dev" THEN in.keycloakInternalIssuerUrl
                         ELSE in.keycloakPublicIssuerUrl
    IN << Env("OAUTH2_PROXY_PROVIDER", <<"oidc">>),
          Env("OAUTH2_PROXY_OIDC_ISSUER_URL", oidcIssuerUrl),
          Env("OAUTH2_PROXY_CLIENT_ID", S_oauth2Proxy \o in.serviceId),
          Env("OAUTH2_PROXY_CLIENT_SECRET", in.clientSecret),
          Env("OAUTH2_PROXY_INSECURE_OIDC_SKIP_ISSUER_VERIFICATION",
              IF ~config.useHttps THEN <<"true">> ELSE <<"false">>),
          Env("OAUTH2_PROXY_SCOPE", <<"openid email profile">>),
          Env("OAUTH2_PROXY_COOKIE_SECRET", in.cookieSecret),
          Env("OAUTH2_PROXY_COOKIE_NAME", <<"_oauth2_proxy_">> \o in.serviceId),
          Env("OAUTH2_PROXY_COOKIE_SAMESITE", <<"lax">>),
          Env("OAUTH2_PROXY_COOKIE_SECURE",
              IF config.useHttps THEN <<"true">> ELSE <<"false">>),
          Env("OAUTH2_PROXY_UPSTREAMS",
              <<"http://">> \o in.upstreamContainerName \o <<":", in.upstreamPort, "/">>),
          Env("OAUTH2_PROXY_REDIRECT_URL", serviceUrl \o <<"/oauth2/callback">>),
          Env("OAUTH2_PROXY_WHITELIST_DOMAINS", buildWhitelistDomains(config.baseDomain)),
          Env("OAUTH2_PROXY_HTTP_ADDRESS", <<"0.0.0.0:4180">>),
          Env("OAUTH2_PROXY_EMAIL_DOMAINS", <<"*">>),
          Env("OAUTH2_PROXY_SKIP_PROVIDER_BUTTON", <<"true">>),
          Env("OAUTH2_PROXY_PASS_ACCESS_TOKEN", <<"true">>),
          Env("OAUTH2_PROXY_PASS_AUTHORIZATION_HEADER", <<"true">>),
          Env("OAUTH2_PROXY_SET_XAUTHREQUEST", <<"true">>),
          Env("OAUTH2_PROXY_SILENCE_PING_LOGGING", <<"true">>),
          Env("OAUTH2_PROXY_OIDC_GROUPS_CLAIM", <<"groups">>),
          Env("OAUTH2_PROXY_ALLOWED_GROUPS", Join(in.requiredRealmRoles, <<",">>)) >>

buildOAuth2ProxyEnvs(in) ==
    LET config == in.config
        serviceUrl == buildUrl(config, IF in.host # <<>> THEN in.host[1] ELSE in.serviceId)
        oidcIssuerUrl == IF config.environment = "dev" THEN in.keycloakInternalIssuerUrl
                         ELSE in.keycloakPublicIssuerUrl
    IN << Env("OAUTH2_PROXY_PROVIDER", <<"oidc">>),
          Env("OAUTH2_PROXY_OIDC_ISSUER_URL", oidcIssuerUrl),
          Env("OAUTH2_PROXY_CLIENT_ID", S_oauth2Proxy \o in.serviceId),
          Env("OAUTH2_PROXY_CLIENT_SECRET", in.clientSecret),
          Env("OAUTH2_PROXY_INSECURE_OIDC_SKIP_ISSUER_VERIFICATION",
              IF config.environment = "dev" THEN <<"true">> ELSE <<"false">>),
          Env("OAUTH2_PROXY_SCOPE", <<"openid email profile">>),
          Env("OAUTH2_PROXY_COOKIE_SECRET", in.cookieSecret),
          Env("OAUTH2_PROXY_COOKIE_NAME", <<"_oauth2_proxy_">> \o in.serviceId),
          Env("OAUTH2_PROXY_COOKIE_SAMESITE", <<"lax">>),
          Env("OAUTH2_PROXY_COOKIE_SECURE",
              IF config.useHttps THEN <<"true">> ELSE <<"false">>),
          Env("OAUTH2_PROXY_UPSTREAMS",
              <<"http://">> \o in.upstreamContainerName \o <<":", in.upstreamPort, "/">>),
          Env("OAUTH2_PROXY_REDIRECT_URL", serviceUrl \o <<"/oauth2/callback">>),
          Env("OAUTH2_PROXY_WHITELIST_DOMAINS", buildWhitelistDomains(config.baseDomain)),
          Env("OAUTH2_PROXY_HTTP_ADDRESS", <<"0.0.0.0:4180">>),
          Env("OAUTH2_PROXY_EMAIL_DOMAINS", <<"*">>),
          Env("OAUTH2_PROXY_SKIP_PROVIDER_BUTTON", <<"true">>),
          Env("OAUTH2_PROXY_PASS_ACCESS_TOKEN", <<"true">>),
          Env("OAUTH2_PROXY_PASS_AUTHORIZATION_HEADER", <<"true">>),
          Env("OAUTH2_PROXY_SET_XAUTHREQUEST", <<"true">>),
          Env("OAUTH2_PROXY_SILENCE_PING_LOGGING", <<"true">>),
          Env("OAUTH2_PROXY_OIDC_GROUPS_CLAIM", <<"groups">>),
          Env("OAUTH2_PROXY_ALLOWED_GROUPS", Join(in.requiredRealmRoles, <<",">>)) >>

MaxRequiredRoles == 2

S_ops == <<"o","p","s">>

SidecarInit ==
    /\ gpc = "input"
    /\ inputs \in [config : [deploymentId : {S_local}, environment : {"dev", "prod"},
                             baseDomain : {<<"localhost">>, <<"example.com">>},
                             useHttps : BOOLEAN],
                   serviceId : {S_demo, S_docs},
                   host : {<<>>, << <<"a","p","p">> >>},
                   keycloakInternalIssuerUrl : {<<"http://local-keycloak:8080/realms/dev">>},
                   keycloakPublicIssuerUrl : {<<"https://keycloak.example.com/realms/dev">>},
                   clientSecret : {<<"client-secret">>},
                   cookieSecret : {<<"cookie-secret">>},
                   upstreamContainerName : {<<"local-app">>},
                   upstreamPort : {"80"},
                   requiredRealmRoles : SeqsUpTo({S_dev, S_admin, S_ops}, MaxRequiredRoles)]
    /\ output = <<>>
    /\ CompileIdle
    /\ RouteIdle
    /\ CascadeIdle

BuildEnvs ==
    /\ gpc = "input"
    /\ output' = buildOAuth2ProxyEnvs(inputs)
    /\ gpc' = "done"
    /\ UNCHANGED <<inputs, compileVars, routeVars, cascadeVars>>

SidecarSpec == SidecarInit /\ [][BuildEnvs]_vars

\* The values of the variables named key, in the order they are emitted
EnvValues(envs, key) ==
    LET at == SelectSeq([i \in DOMAIN envs |-> i],
                        LAMBDA i : envs[i][1] = key /\ envs[i][2] = "=")
    IN [k \in DOMAIN at |-> SubSeq(envs[at[k]], 3, Len(envs[at[k]]))]

\* value.split(","): the runs of characters between commas
RECURSIVE SplitComma(_)
SplitComma(s) ==
    IF \A i \in DOMAIN s : s[i] # "," THEN <<s>>
    ELSE LET at == CHOOSE i \in DOMAIN s : s[i] = "," /\ \A j \in 1..(i - 1) : s[j] # ","
         IN <<SubSeq(s, 1, at - 1)>> \o SplitComma(SubSeq(s, at + 1, Len(s)))

-----------------------------------------------------------------------------
(* Bootstrap users and the stack name                                      *)

UsersNotLocalErrors ==
    {i \in DOMAIN result.errors : result.errors[i].code = "USERS_NOT_LOCAL"}

\* C20: a validated configuration that has bootstrap users and a stack name
\* other than exactly "local" is rejected (valid is false) with one
\* USERS_NOT_LOCAL error; a configuration with no users, or with users on
\* the stack "local", never gets that error.
C20_UsersOnlyOnLocalStack ==
    Validated =>
        IF Len(resolved.users) > 0 /\ resolved.stackName # S_local
        THEN ~result.valid /\ Cardinality(UsersNotLocalErrors) = 1
        ELSE UsersNotLocalErrors = {}

\* Users on the stack "Local", which differs from "local" only by case, in
\* a declaration with nothing else wrong: rejected for the users alone
C20_Witness ==
    /\ Validated
    /\ resolved.stackName = S_Local
    /\ Len(resolved.users) = 1
    /\ ~result.valid
    /\ Len(result.errors) = 1
    /\ result.errors[1].code = "USERS_NOT_LOCAL"

\* The same users on the stack "local" are accepted
C20_AcceptedOnLocal ==
    /\ Validated
    /\ resolved.stackName = S_local
    /\ Len(resolved.users) = 1
    /\ result.valid

-----------------------------------------------------------------------------
(* assertValidDeploymentConfig: validate and throw                          *)

\* The outcome of a call that returns nothing or throws an Error
Returned == [threw |-> FALSE, message |-> <<>>]
Thrown(message) == [threw |-> TRUE, message |-> message]

assertValidDeploymentConfig_FirstOnly(config, serviceCatalog) ==
    LET validation == validateDeploymentConfig(config, serviceCatalog)
    IN IF ~validation.valid
       THEN LET e == validation.errors[1]
                errorMessages ==
                    <<"  - ">> \o e.message
                        \o (IF e.path # <<>> THEN <<" (at ">> \o e.path \o <<")">> ELSE <<>>)
            IN Thrown(<<"Deployment configuration validation failed:\n">> \o errorMessages)
       ELSE Returned

assertValidDeploymentConfig(config, serviceCatalog) ==
    LET validation == validateDeploymentConfig(config, serviceCatalog)
    IN IF ~validation.valid
       THEN LET errorMessages ==
                    Join([i \in DOMAIN validation.errors |->
                             LET e == validation.errors[i]
                             IN <<"  - ">> \o e.message
                                    \o (IF e.path # <<>> THEN <<" (at ">> \o e.path \o <<")">>
                                        ELSE <<>>)],
                         <<"\n">>)
            IN Thrown(<<"Deployment configuration validation failed:\n">> \o errorMessages)
       ELSE Returned

AssertValid ==
    /\ pc = "resolved"
    /\ result' = assertValidDeploymentConfig(resolved, SERVICE_CATALOG)
    /\ pc' = "asserted"
    /\ UNCHANGED <<stackName, raw, resolved, routeVars, cascadeVars, genVars>>

AssertNext == Resolve \/ AssertValid

AssertSpec == Init /\ [][AssertNext]_vars

Asserted == pc = "asserted"

\* The errors the validator finds in the resolved configuration
FoundErrors == validateDeploymentConfig(resolved, SERVICE_CATALOG).errors

\* C21: assertValidDeploymentConfig throws exactly when validation finds at
\* least one error, and the thrown message contains the message of every
\* error found, each on a line of its own starting with "  - ".
C21_ThrowsIffErrorsAndListsAll ==
    Asserted =>
        LET found == FoundErrors
        IN IF Len(found) > 0
           THEN /\ result.threw
                /\ \A i \in DOMAIN found :
                      Contains(result.message, <<"  - ">> \o found[i].message)
           ELSE ~result.threw /\ result.message = <<>>

\* A configuration with two different errors: the throw names both
C21_Witness ==
    /\ Asserted
    /\ result.threw
    /\ Len(FoundErrors) >= 2
    /\ FoundErrors[1].code # FoundErrors[2].code
    /\ Contains(result.message, FoundErrors[1].message)
    /\ Contains(result.message, FoundErrors[2].message)

-----------------------------------------------------------------------------
(* Middlewares of the service routers                                      *)

\* The routers generated for route requests: their names start with "host-"
ServiceRouters ==
    {traefik.http.routers[i][2] :
        i \in {k \in DOMAIN traefik.http.routers : traefik.http.routers[k][1][1] = "host-"}}

RateLimiting == {"rate-limit", "in-flight-req"}
SecurityHeaders == {"security-headers", "keycloak-security-headers"}

\* C22 as stated: a service router carries the chain (rate limiting, then
\* security headers) exactly when the environment is prod, and in any other
\* environment it references neither a rate-limiting nor a security-header
\* middleware.
C22_ChainIffProduction ==
    (rpc = "done" /\ traefik.ok) =>
        \A r \in ServiceRouters :
            IF dconfig.environment = "prod"
            THEN r.middlewares = <<"rate-limit", "in-flight-req", "security-headers">>
            ELSE Range(r.middlewares) \cap (RateLimiting \cup SecurityHeaders) = {}

\* C22, amended: a service router references the rate-limiting middlewares
\* exactly when the environment is prod, and the security-headers middleware
\* exactly when the environment is prod or TLS is enabled; rate limiting
\* always comes before the security headers, and a router in dev without
\* TLS has no middleware at all.
C22_RateLimitIffProdHeadersIffProdOrTls ==
    (rpc = "done" /\ traefik.ok) =>
        \A r \in ServiceRouters :
            r.middlewares =
                (IF dconfig.environment = "prod"
                 THEN <<"rate-limit", "in-flight-req">> ELSE <<>>)
                \o (IF dconfig.environment = "prod" \/ dconfig.useHttps
                    THEN <<"security-headers">> ELSE <<>>)

\* A dev deployment with TLS: its service router carries the security
\* headers and no rate limiting
C22_Witness ==
    /\ rpc = "done"
    /\ traefik.ok
    /\ dconfig.environment = "dev"
    /\ dconfig.useHttps
    /\ \E r \in ServiceRouters : r.middlewares = <<"security-headers">>

-----------------------------------------------------------------------------
(* Order of the clients in the realm import                                *)

RealmClients == output.realm.clients

\* C23: in every realm import that is returned, the clients are in ascending
\* order of client id under en-US collation, whatever the order of the
\* client requests.
C23_ClientsAscendingByClientId ==
    (gpc = "done" /\ output.ok) =>
        \A k, l \in DOMAIN RealmClients :
            k < l => localeCompare(RealmClients[k].clientId, RealmClients[l].clientId) < 0

\* What the code orders: the portal client first, then the clients of the
\* services in ascending order of service id
C23_PortalThenServicesAscending ==
    (gpc = "done" /\ output.ok) =>
        /\ RealmClients[1].clientId = S_portal
        /\ \A k, l \in 2..Len(RealmClients) :
              k < l => localeCompare(RealmClients[k].clientId, RealmClients[l].clientId) < 0

-----------------------------------------------------------------------------
(* Issuer verification of the sidecar                                      *)

IssuerUrls == EnvValues(output, "OAUTH2_PROXY_OIDC_ISSUER_URL")
SkipIssuerVerification ==
    EnvValues(output, "OAUTH2_PROXY_INSECURE_OIDC_SKIP_ISSUER_VERIFICATION")

\* C24: every sidecar environment has one issuer URL, which is the internal
\* or the public one, and one issuer-verification switch; verification is
\* skipped ("true") exactly when the issuer URL is the internal one, and is
\* on ("false") whenever the public issuer URL is used.
C24_SkipVerificationIffInternalIssuer ==
    gpc = "done" =>
        /\ Len(IssuerUrls) = 1 /\ Len(SkipIssuerVerification) = 1
        /\ IssuerUrls[1] \in {inputs.keycloakInternalIssuerUrl, inputs.keycloakPublicIssuerUrl}
        /\ SkipIssuerVerification[1] \in {<<"true">>, <<"false">>}
        /\ SkipIssuerVerification[1] = <<"true">>
               <=> IssuerUrls[1] = inputs.keycloakInternalIssuerUrl
        /\ IssuerUrls[1] = inputs.keycloakPublicIssuerUrl
               => SkipIssuerVerification[1] = <<"false">>

\* A dev deployment with TLS: internal issuer, verification skipped
C24_Witness ==
    /\ gpc = "done"
    /\ inputs.config.environment = "dev"
    /\ inputs.config.useHttps
    /\ IssuerUrls = <<inputs.keycloakInternalIssuerUrl>>
    /\ SkipIssuerVerification = << <<"true">> >>

-----------------------------------------------------------------------------
(* The roles of a resolved configuration                                   *)

MaxExplicitRoles == 2

\* Declarations for role resolution: roles absent or any list (in any order,
\* with repeats) of up to MaxExplicitRoles roles, users and services that
\* refer to the same roles more than once
RolesInit ==
    /\ gpc = "input"
    /\ inputs \in
          [stackName : {S_local},
           roles : {<<>>} \cup {<<r>> : r \in SeqsUpTo({S_dev, S_admin, S_badRole},
                                                       MaxExplicitRoles)},
           users : SeqsNoRep(RealmUsers, 1),
           services : { <<>>,
                        << <<S_demo, RawService(<<>>, << <<S_dev, S_admin>> >>, <<>>)>> >>,
                        << <<S_docs, RawService(<<>>, << <<S_dev>> >>, <<>>)>>,
                           <<S_demo, RawService(<<>>, << <<S_dev, S_admin>> >>, <<>>)>> >> }]
    /\ output = <<>>
    /\ CompileIdle
    /\ RouteIdle
    /\ CascadeIdle

ResolveRoles ==
    /\ gpc = "input"
    /\ output' = resolveDeploymentConfig(inputs.stackName, inputs)
    /\ gpc' = "done"
    /\ UNCHANGED <<inputs, compileVars, routeVars, cascadeVars>>

RolesSpec == RolesInit /\ [][ResolveRoles]_vars

\* In the order of Array.prototype.sort() without a comparator
RolesSorted(roles) ==
    \A k, l \in DOMAIN roles : k < l => CodeUnitCompare(roles[k], roles[l]) <= 0

RolesDistinct(roles) ==
    \A k, l \in DOMAIN roles : k # l => roles[k] # roles[l]

\* C25: the roles of every resolved configuration are sorted and have no
\* duplicates, whether they were declared explicitly or computed from the
\* roles that users and services refer to.
C25_RolesSortedAndDeduplicated ==
    gpc = "done" => RolesSorted(output.roles) /\ RolesDistinct(output.roles)

\* What the code gives: sorted in both cases, and without duplicates when
\* the roles are computed or the explicit list has none
C25_SortedAndDeduplicatedWhenComputed ==
    gpc = "done" =>
        /\ RolesSorted(output.roles)
        /\ (inputs.roles = <<>> \/ RolesDistinct(inputs.roles[1]))
               => RolesDistinct(output.roles)

-----------------------------------------------------------------------------
(* Realm roles of an accepted declaration                                  *)

\* The names of the realm roles the realm import gets for the accepted
\* configuration
RealmRoleNames == {r.name : r \in Range(buildRealmRoles(result.config))}

\* The roles that the sidecars of the accepted configuration require
SidecarRoles ==
    UNION {Range(result.config.services[i].requiredRoles) :
              i \in {k \in DOMAIN result.config.services :
                        result.config.services[k].authType = "oauth2-proxy"}}

\* C26: for every declaration the validator accepts, every role required by
\* a service behind oauth2-proxy is one of the realm roles emitted for the
\* accepted configuration.
C26_SidecarRolesAreRealmRoles ==
    (Validated /\ result.valid) => SidecarRoles \subseteq RealmRoleNames

\* The same, for declarations whose roles list is absent or not empty
C26_SidecarRolesAreRealmRolesUnlessEmptyAllowList ==
    (Validated /\ result.valid /\ raw.roles # << <<>> >>)
        => SidecarRoles \subseteq RealmRoleNames

-----------------------------------------------------------------------------
(* Redirect URIs of the realm clients                                      *)

NoWildcard(uri) == \A i \in DOMAIN uri : uri[i] \notin {"*", "/*", "/**"}

\* C27: in every realm import that is returned no redirect URI has a
\* wildcard; the portal client has exactly one redirect URI, the
\* /auth/callback path under the portal's public URL, and the client of a
\* service has exactly one, the /oauth2/callback path under that service's
\* public URL.
C27_ExplicitRedirectUris ==
    (gpc = "done" /\ output.ok) =>
        \A k \in DOMAIN RealmClients :
            LET client == RealmClients[k]
            IN /\ \A u \in DOMAIN client.redirectUris : NoWildcard(client.redirectUris[u])
               /\ IF client.clientId = S_portal
                  THEN client.redirectUris
                           = << buildUrl(inputs.config, S_portal) \o <<"/auth/callback">> >>
                  ELSE \E id \in RealmServiceIds :
                          /\ client.clientId = S_oauth2Proxy \o id
                          /\ client.redirectUris
                                 = << buildUrl(inputs.config, id) \o <<"/oauth2/callback">> >>

\* A realm with the portal client and the clients of two services
C27_Witness ==
    /\ gpc = "done"
    /\ output.ok
    /\ Len(RealmClients) = 3
    /\ inputs.config.useHttps
    /\ RealmClients[2].redirectUris
           = << <<"https", "://">> \o S_demo \o <<".", "localhost", "/oauth2/callback">> >>

-----------------------------------------------------------------------------
(* services/protected-service.ts: the sidecar of a protected service and   *)
(* the realm client created for the same service                           *)

createOAuth2ProxySidecar(serviceConfig, context, appConfig) ==
    LET config == context.config
        serviceId == serviceConfig.serviceId
    IN [envs |-> buildOAuth2ProxyEnvs(
                     [config |-> config,
                      serviceId |-> serviceId,
                      host |-> <<>>,
                      keycloakInternalIssuerUrl |-> context.keycloakInternalIssuerUrl,
                      keycloakPublicIssuerUrl |-> context.keycloakPublicIssuerUrl,
                      clientSecret |-> context.clientSecret,
                      cookieSecret |-> context.oauth2ProxyCookieSecret,
                      upstreamContainerName |-> appConfig.containerAddress,
                      upstreamPort |-> appConfig.port,
                      requiredRealmRoles |-> serviceConfig.requiredRealmRoles]),
        containerAddress |-> shortName(config.deploymentId, S_oauth2Proxy \o serviceId)]

\* A protected service of the resolved configuration (its id, the host it
\* declares, its roles) and the context its module is created in
ProtectedServiceInit ==
    /\ gpc = "input"
    /\ inputs \in
          [service : UNION {[serviceId : {id}, host : {id, <<"a","p","p">>},
                             requiredRoles : {<<S_admin>>, <<S_dev, S_admin>>}] :
                                id \in {S_demo, S_docs}},
           context : [config : [deploymentId : {S_local}, environment : {"dev", "prod"},
                                baseDomain : {<<"localhost">>, <<"example.com">>},
                                useHttps : BOOLEAN],
                      keycloakInternalIssuerUrl : {<<"http://local-keycloak:8080/realms/dev">>},
                      keycloakPublicIssuerUrl : {<<"https://keycloak.example.com/realms/dev">>},
                      oauth2ProxyCookieSecret : {<<"cookie-secret">>},
                      clientSecret : {<<"client-secret">>}]]
    /\ output = <<>>
    /\ CompileIdle
    /\ RouteIdle
    /\ CascadeIdle

\* The service's module creates the sidecar; the realm gets the client
\* requested for the same service id
DeployProtectedService ==
    /\ gpc = "input"
    /\ LET serviceId == inputs.service.serviceId
           config == inputs.context.config
       IN output' =
             [sidecar |-> createOAuth2ProxySidecar(
                              [serviceId |-> serviceId,
                               requiredRealmRoles |-> inputs.service.requiredRoles],
                              inputs.context,
                              [containerAddress |-> shortName(config.deploymentId, serviceId),
                               port |-> "80"]),
              client |-> buildOAuth2ProxyClient(buildClientRequest(config, serviceId),
                                                inputs.context.clientSecret)]
    /\ gpc' = "done"
    /\ UNCHANGED <<inputs, compileVars, routeVars, cascadeVars>>

ProtectedServiceSpec == ProtectedServiceInit /\ [][DeployProtectedService]_vars

RedirectUrls == EnvValues(output.sidecar.envs, "OAUTH2_PROXY_REDIRECT_URL")

-----------------------------------------------------------------------------
(* Order of the descriptor against the order of its input                  *)

\* No two entries of the input have the same group and the same name
DistinctGroupAndName(services) ==
    \A i, j \in DOMAIN services :
        i # j => ~(services[i].group = services[j].group
                     /\ services[i].name = services[j].name)

\* No two entries of the input compare as equal
NoTies(services) ==
    \A i, j \in DOMAIN services :
        i # j => comparePortalServices(services[i], services[j]) # 0

\* C29: when no two entries have the same (group, name) pair, generating
\* the descriptor from any permutation of the service list gives the same
\* descriptor.
C29_DescriptorPermutationInvariant ==
    (gpc = "done" /\ output.ok /\ DistinctGroupAndName(inputs.services)) =>
        \A permuted \in Orderings(inputs.services) :
            generateDescriptor(inputs.config, permuted) = output

\* The same for lists in which no two entries compare as equal under the
\* collator (which ignores case and reads digit runs as numbers)
C29_PermutationInvariantWithoutTies ==
    (gpc = "done" /\ output.ok /\ NoTies(inputs.services)) =>
        \A permuted \in Orderings(inputs.services) :
            generateDescriptor(inputs.config, permuted) = output

-----------------------------------------------------------------------------
(* References between the parts of the routing configuration               *)

AllRouters == {traefik.http.routers[i][2] : i \in DOMAIN traefik.http.routers}
ServiceKeys == Range(ObjKeys(traefik.http.services))
MiddlewareKeys == Range(ObjKeys(traefik.http.middlewares))

\* C30: in every generated routing configuration, for each environment and
\* TLS flag, the service a router names is a key of the services map or is
\* noop@internal, and every middleware a router names is a key of the
\* middlewares map.
C30_RouterReferencesResolve ==
    (rpc = "done" /\ traefik.ok) =>
        \A r \in AllRouters :
            /\ r.service = <<"noop@internal">> \/ r.service \in ServiceKeys
            /\ \A m \in Range(r.middlewares) : <<m>> \in MiddlewareKeys

\* A prod deployment with TLS and two service routes: routers reference the
\* rate-limiting and both security-header middlewares, and the redirect
\* router references the built-in service
C30_Witness ==
    /\ rpc = "done"
    /\ traefik.ok
    /\ dconfig.environment = "prod"
    /\ dconfig.useHttps
    /\ Cardinality(ServiceRouters) = 2
    /\ \E r \in AllRouters : r.service = <<"noop@internal">>
    /\ \E r \in AllRouters : "keycloak-security-headers" \in Range(r.middlewares)
    /\ \E r \in ServiceRouters : "rate-limit" \in Range(r.middlewares)

====
